---------------------------- MODULE Spec2Model ----------------------------
(* Model of the multi-broker aggregation core of src/stock.py:               *)
(*   - the JSON values the brokers send and the safe numeric conversions,     *)
(*   - the three response parsers (KIS domestic, KIS overseas, Kiwoom),       *)
(*   - the session-state token cache (BaseAPI.get_token and the two           *)
(*     _issue_token variants),                                                *)
(*   - the balance fetches and collect_all_assets.                            *)
(* Floating-point numbers are fixed-point values counted in tenths           *)
(* ("2.7" is 27), with the three special values inf, -inf and nan.            *)
(* Display strings that the source writes in Korean are written in ASCII.     *)
EXTENDS Integers, Sequences, FiniteSets, TLC

(***************************************************************************)
(* JSON values as json.loads produces them                                 *)
(***************************************************************************)
JNull == [t |-> "null"]
JStr(s) == [t |-> "str", s |-> s]
JNum(v) == [t |-> "num", v |-> v]          \* v in tenths
JBool(b) == [t |-> "bool", b |-> b]
JList(l) == [t |-> "list", l |-> l]
JDict(d) == [t |-> "dict", d |-> d]
EmptyDict == JDict([k \in {} |-> 0])

\* dict.get(k) and dict.get(k, default) on a JSON object
Get(obj, k) == IF k \in DOMAIN obj.d THEN obj.d[k] ELSE JNull
GetD(obj, k, default) == IF k \in DOMAIN obj.d THEN obj.d[k] ELSE default

\* Python truthiness of a JSON value (the `x or default` and `if x` tests)
Truthy(j) ==
    CASE j.t = "null" -> FALSE
      [] j.t = "str"  -> j.s # ""
      [] j.t = "num"  -> j.v # 0
      [] j.t = "bool" -> j.b
      [] j.t = "list" -> Len(j.l) > 0
      [] j.t = "dict" -> DOMAIN j.d # {}

\* x or default
Or(j, default) == IF Truthy(j) THEN j ELSE default

(***************************************************************************)
(* Floats                                                                  *)
(***************************************************************************)
Fin(v) == [f |-> "fin", v |-> v]
PosInf == [f |-> "inf", v |-> 0]
NegInf == [f |-> "ninf", v |-> 0]
NaN == [f |-> "nan", v |-> 0]
FromInt(n) == Fin(n * 10)

\* x > 0 on a float (False for nan)
GtZero(x) == x.f = "inf" \/ (x.f = "fin" /\ x.v > 0)
\* x == 0 on a float
IsZero(x) == x.f = "fin" /\ x.v = 0

\* The strings of the model's vocabulary that Python's float() accepts,
\* with their value; every other string raises ValueError.
NumericStrings ==
    { "0", "1", "10", "-5", "0.5", "2.7", "inf", "-inf", "nan",
      "50000", "55000", "550000" }
StrToFloat(s) ==
    CASE s = "0"      -> Fin(0)
      [] s = "1"      -> Fin(10)
      [] s = "10"     -> Fin(100)
      [] s = "-5"     -> Fin(-50)
      [] s = "0.5"    -> Fin(5)
      [] s = "2.7"    -> Fin(27)
      [] s = "inf"    -> PosInf
      [] s = "-inf"   -> NegInf
      [] s = "nan"    -> NaN
      [] s = "50000"  -> Fin(500000)
      [] s = "55000"  -> Fin(550000)
      [] s = "550000" -> Fin(5500000)

\* Outcome of a call: a value, or the exception it raised
Ok(v) == [ok |-> TRUE, v |-> v, exc |-> ""]
Raise(e) == [ok |-> FALSE, v |-> 0, exc |-> e]

\* float(x) for a JSON value x (x is never null here: null is falsy and
\* replaced by the default before float is applied)
PyFloat(j) ==
    CASE j.t = "str"  -> IF j.s \in NumericStrings
                         THEN Ok(StrToFloat(j.s)) ELSE Raise("ValueError")
      [] j.t = "num"  -> Ok(Fin(j.v))
      [] j.t = "bool" -> Ok(Fin(IF j.b THEN 10 ELSE 0))
      [] OTHER        -> Raise("TypeError")

\* int(x) for a float x: truncation toward zero
PyInt(x) ==
    CASE x.f = "fin" -> Ok(IF x.v >= 0 THEN x.v \div 10 ELSE -((-x.v) \div 10))
      [] x.f = "nan" -> Raise("ValueError")
      [] OTHER       -> Raise("OverflowError")

\* try: return float(val or default) / except (ValueError, TypeError): return default
safe_float_d(val, default) ==
    LET r == PyFloat(Or(val, JNum(default.v)))
    IN  IF r.ok THEN r
        ELSE IF r.exc \in {"ValueError", "TypeError"} THEN Ok(default) ELSE r
safe_float(val) == safe_float_d(val, Fin(0))

\* try: return int(float(val or default)) / except (ValueError, TypeError): return default
safe_int_d(val, default) ==
    LET r == PyFloat(Or(val, JNum(default * 10)))
        i == IF r.ok THEN PyInt(r.v) ELSE r
    IN  IF i.ok THEN i
        ELSE IF i.exc \in {"ValueError", "TypeError"} THEN Ok(default) ELSE i
safe_int(val) == safe_int_d(val, 0)

(***************************************************************************)
(* Parsing helpers                                                         *)
(***************************************************************************)
\* The elements a Python `for` loop visits on a JSON value.  Iterating a
\* string or an object visits strings (characters, keys); only their being
\* strings matters to the parsers, which call .get on each element.
Iterate(j) ==
    CASE j.t = "list" -> Ok(j.l)
      [] j.t = "str"  -> Ok(IF j.s = "" THEN <<>> ELSE <<JStr(j.s)>>)
      [] j.t = "dict" -> Ok(IF DOMAIN j.d = {} THEN <<>> ELSE <<JStr("key")>>)
      [] OTHER        -> Raise("TypeError")

\* x[0] on a truthy JSON value
First(j) ==
    CASE j.t = "list" -> Ok(j.l[1])
      [] j.t = "str"  -> Ok(JStr(j.s))
      [] j.t = "dict" -> Raise("KeyError")
      [] OTHER        -> Raise("TypeError")

\* The loop `for x in xs: result.append(...)`: outs[i] is what the body does
\* with the i-th element (Ok(<<>>) when it appends nothing); the first raising
\* element aborts the loop.
RECURSIVE Collect(_)
Collect(outs) ==
    IF Len(outs) = 0 THEN Ok(<<>>)
    ELSE IF ~Head(outs).ok THEN Head(outs)
    ELSE LET rest == Collect(Tail(outs))
         IN  IF rest.ok THEN Ok(Head(outs).v \o rest.v) ELSE rest

\* Two consecutive parts of one parser: the second runs only if the first
\* raised nothing.
Then(a, b) == IF ~a.ok THEN a ELSE IF ~b.ok THEN b ELSE Ok(a.v \o b.v)

(***************************************************************************)
(* KISApi: display fields and parsers                                      *)
(***************************************************************************)
BROKER_KIS == "KIS"                 \* "hanguktujajeunggwon"
BROKER_KIWOOM == "Kiwoom"           \* "kiumjeunggwon"
KISAccountType(account_type) == IF account_type = "P" THEN "individual" ELSE "corporate"
KISAccountLabel(account_type) == IF account_type = "P" THEN "owner(KIS)" ELSE "company(KIS)"

\* the loop body with the evaluation amount read from the profit field
KISDomesticStock_AmountFromProfit(account_type, stock) ==
    IF stock.t # "dict" THEN Raise("AttributeError")
    ELSE
    LET qty == safe_int(Get(stock, "hldg_qty"))
        ea  == safe_int(Get(stock, "evlu_pfls_amt"))
        pl  == safe_int(Get(stock, "evlu_pfls_amt"))
    IN  IF ~qty.ok THEN qty
        ELSE IF ~(qty.v > 0) THEN Ok(<<>>)
        ELSE IF ~ea.ok THEN ea
        ELSE IF ~pl.ok THEN pl
        ELSE Ok(<< [ broker |-> BROKER_KIS,
                     account_type |-> KISAccountType(account_type),
                     account_label |-> KISAccountLabel(account_type),
                     market |-> "domestic",
                     asset_type |-> "stock",
                     ticker |-> Get(stock, "pdno"),
                     name |-> Get(stock, "prdt_name"),
                     quantity |-> qty.v,
                     avg_buy_price |-> safe_float(Get(stock, "pchs_avg_pric")).v,
                     current_price |-> safe_float(Get(stock, "prpr")).v,
                     eval_amount |-> FromInt(ea.v),
                     profit_loss |-> FromInt(pl.v),
                     profit_rate |-> safe_float(Get(stock, "evlu_pfls_rt")).v,
                     currency |-> JStr("KRW") ] >>)

\* one element of output1 in KISApi._parse_domestic
KISDomesticStock(account_type, stock) ==
    IF stock.t # "dict" THEN Raise("AttributeError")
    ELSE
    LET qty == safe_int(Get(stock, "hldg_qty"))
        ea  == safe_int(Get(stock, "evlu_amt"))
        pl  == safe_int(Get(stock, "evlu_pfls_amt"))
    IN  IF ~qty.ok THEN qty
        ELSE IF ~(qty.v > 0) THEN Ok(<<>>)
        ELSE IF ~ea.ok THEN ea
        ELSE IF ~pl.ok THEN pl
        ELSE Ok(<< [ broker |-> BROKER_KIS,
                     account_type |-> KISAccountType(account_type),
                     account_label |-> KISAccountLabel(account_type),
                     market |-> "domestic",
                     asset_type |-> "stock",
                     ticker |-> Get(stock, "pdno"),
                     name |-> Get(stock, "prdt_name"),
                     quantity |-> qty.v,
                     avg_buy_price |-> safe_float(Get(stock, "pchs_avg_pric")).v,
                     current_price |-> safe_float(Get(stock, "prpr")).v,
                     eval_amount |-> FromInt(ea.v),
                     profit_loss |-> FromInt(pl.v),
                     profit_rate |-> safe_float(Get(stock, "evlu_pfls_rt")).v,
                     currency |-> JStr("KRW") ] >>)

\* the cash part of KISApi._parse_domestic
KISDomesticCash(account_type, output) ==
    IF ~Truthy(Get(output, "output2")) THEN Ok(<<>>)
    ELSE
    LET cash == First(GetD(output, "output2", JList(<<>>)))
    IN  IF ~cash.ok THEN cash
        ELSE IF cash.v.t # "dict" THEN Raise("AttributeError")
        ELSE
        LET cash_amt == safe_int(Get(cash.v, "nxdy_excc_amt"))
        IN  IF ~cash_amt.ok THEN cash_amt
            ELSE IF ~(cash_amt.v > 0) THEN Ok(<<>>)
            ELSE Ok(<< [ broker |-> BROKER_KIS,
                         account_type |-> KISAccountType(account_type),
                         account_label |-> KISAccountLabel(account_type),
                         market |-> "domestic",
                         asset_type |-> "cash",
                         ticker |-> JStr("KRW"),
                         name |-> JStr("KRW deposit"),
                         quantity |-> 1,
                         avg_buy_price |-> FromInt(cash_amt.v),
                         current_price |-> FromInt(cash_amt.v),
                         eval_amount |-> FromInt(cash_amt.v),
                         profit_loss |-> Fin(0),
                         profit_rate |-> Fin(0),
                         currency |-> JStr("KRW") ] >>)

KIS_parse_domestic(account_type, data) ==
    LET output == GetD(data, "output", data)
    IN  IF output.t # "dict" THEN Raise("AttributeError")
        ELSE
        LET it == Iterate(GetD(output, "output1", JList(<<>>)))
        IN  IF ~it.ok THEN it
            ELSE Then(Collect([i \in 1..Len(it.v) |->
                                  KISDomesticStock(account_type, it.v[i])]),
                      KISDomesticCash(account_type, output))

\* one element of output1 in KISApi._parse_overseas
KISOverseasStock(account_type, stock) ==
    IF stock.t # "dict" THEN Raise("AttributeError")
    ELSE
    LET qty == safe_int(Get(stock, "ccld_qty_smtl1"))
        avg3 == safe_float(Get(stock, "avg_unpr3")).v
        avg_buy_price == IF IsZero(avg3)
                         THEN safe_float(Get(stock, "pchs_avg_pric")).v ELSE avg3
    IN  IF ~qty.ok THEN qty
        ELSE IF ~(qty.v > 0) THEN Ok(<<>>)
        ELSE Ok(<< [ broker |-> BROKER_KIS,
                     account_type |-> KISAccountType(account_type),
                     account_label |-> KISAccountLabel(account_type),
                     market |-> "overseas",
                     asset_type |-> "stock",
                     ticker |-> Get(stock, "pdno"),
                     name |-> Get(stock, "prdt_name"),
                     quantity |-> qty.v,
                     avg_buy_price |-> avg_buy_price,
                     current_price |-> safe_float(Get(stock, "ovrs_now_pric1")).v,
                     eval_amount |-> safe_float(Get(stock, "frcr_evlu_amt2")).v,
                     profit_loss |-> safe_float(Get(stock, "evlu_pfls_amt2")).v,
                     profit_rate |-> safe_float(Get(stock, "evlu_pfls_rt1")).v,
                     currency |-> Or(Get(stock, "buy_crcy_cd"), JStr("USD")) ] >>)

\* one element of output2 in KISApi._parse_overseas
KISOverseasCash(account_type, cash) ==
    IF cash.t # "dict" THEN Raise("AttributeError")
    ELSE
    LET amt == safe_float(Get(cash, "frcr_dncl_amt_2")).v
        ccy == Or(Get(cash, "crcy_cd"), JStr("USD"))
    IN  IF ~GtZero(amt) THEN Ok(<<>>)
        ELSE Ok(<< [ broker |-> BROKER_KIS,
                     account_type |-> KISAccountType(account_type),
                     account_label |-> KISAccountLabel(account_type),
                     market |-> "overseas",
                     asset_type |-> "cash",
                     ticker |-> ccy,
                     name |-> ccy,             \* f"{ccy} deposit"
                     quantity |-> 1,
                     avg_buy_price |-> amt,
                     current_price |-> amt,
                     eval_amount |-> amt,
                     profit_loss |-> Fin(0),
                     profit_rate |-> Fin(0),
                     currency |-> ccy ] >>)

KIS_parse_overseas(account_type, data) ==
    LET it1 == Iterate(GetD(data, "output1", JList(<<>>)))
        it2 == Iterate(GetD(data, "output2", JList(<<>>)))
    IN  IF ~it1.ok THEN it1
        ELSE
        LET stocks == Collect([i \in 1..Len(it1.v) |->
                                  KISOverseasStock(account_type, it1.v[i])])
        IN  IF ~stocks.ok THEN stocks
            ELSE IF ~it2.ok THEN it2
            ELSE Then(stocks,
                      Collect([i \in 1..Len(it2.v) |->
                                  KISOverseasCash(account_type, it2.v[i])]))

(***************************************************************************)
(* KiwoomAPI parser                                                        *)
(***************************************************************************)
\* x != 0 for a JSON value x (Python: 0 == 0.0 == False)
NotEqualZero(j) ==
    ~( (j.t = "num" /\ j.v = 0) \/ (j.t = "bool" /\ ~j.b) )

\* the stock record KiwoomAPI._parse_domestic appends for one holding
KiwoomStockRecord(stock, qty, ea, pl) ==
    [ broker |-> BROKER_KIWOOM,
      account_type |-> "corporate",
      account_label |-> "company(Kiwoom)",
      market |-> "domestic",
      asset_type |-> "stock",
      ticker |-> Get(stock, "stk_cd"),
      name |-> GetD(stock, "stk_nm", GetD(stock, "stk_cd", JStr("unknown"))),
      quantity |-> qty,
      avg_buy_price |-> safe_float(Get(stock, "buy_uv")).v,
      current_price |-> safe_float(Get(stock, "cur_prc")).v,
      eval_amount |-> FromInt(ea),
      profit_loss |-> FromInt(pl),
      profit_rate |-> safe_float(Get(stock, "prft_rt")).v,
      currency |-> JStr("KRW") ]

\* the holdings loop body with the quantity test admitting zero
KiwoomStock_ZeroAdmitted(stock) ==
    IF stock.t # "dict" THEN Raise("AttributeError")
    ELSE
    LET qty == safe_int(Get(stock, "rmnd_qty"))
        ea  == safe_int(Get(stock, "evlt_amt"))
        pl  == safe_int(Get(stock, "evltv_prft"))
    IN  IF ~qty.ok THEN qty
        ELSE IF ~(qty.v >= 0) THEN Ok(<<>>)
        ELSE IF ~ea.ok THEN ea
        ELSE IF ~pl.ok THEN pl
        ELSE Ok(<< KiwoomStockRecord(stock, qty.v, ea.v, pl.v) >>)

\* one element of day_bal_rt in KiwoomAPI._parse_domestic
KiwoomStock(stock) ==
    IF stock.t # "dict" THEN Raise("AttributeError")
    ELSE
    LET qty == safe_int(Get(stock, "rmnd_qty"))
        ea  == safe_int(Get(stock, "evlt_amt"))
        pl  == safe_int(Get(stock, "evltv_prft"))
    IN  IF ~qty.ok THEN qty
        ELSE IF ~(qty.v > 0) THEN Ok(<<>>)
        ELSE IF ~ea.ok THEN ea
        ELSE IF ~pl.ok THEN pl
        ELSE Ok(<< KiwoomStockRecord(stock, qty.v, ea.v, pl.v) >>)

\* the cash record with the amount written into quantity as well
KiwoomCashRecord_QuantityIsAmount(dbst_bal) ==
    [ broker |-> BROKER_KIWOOM,
      account_type |-> "corporate",
      account_label |-> "company(Kiwoom)",
      market |-> "domestic",
      asset_type |-> "cash",
      ticker |-> JStr("KRW"),
      name |-> JStr("KRW deposit"),
      quantity |-> dbst_bal,
      avg_buy_price |-> FromInt(dbst_bal),
      current_price |-> FromInt(dbst_bal),
      eval_amount |-> FromInt(dbst_bal),
      profit_loss |-> Fin(0),
      profit_rate |-> Fin(0),
      currency |-> JStr("KRW") ]

\* the cash record KiwoomAPI._parse_domestic appends
KiwoomCashRecord(dbst_bal) ==
    [ broker |-> BROKER_KIWOOM,
      account_type |-> "corporate",
      account_label |-> "company(Kiwoom)",
      market |-> "domestic",
      asset_type |-> "cash",
      ticker |-> JStr("KRW"),
      name |-> JStr("KRW deposit"),
      quantity |-> 1,
      avg_buy_price |-> FromInt(dbst_bal),
      current_price |-> FromInt(dbst_bal),
      eval_amount |-> FromInt(dbst_bal),
      profit_loss |-> Fin(0),
      profit_rate |-> Fin(0),
      currency |-> JStr("KRW") ]

\* the cash part with the amount test admitting zero
KiwoomCash_ZeroAdmitted(data) ==
    LET dbst_bal == safe_int(Get(data, "dbst_bal"))
    IN  IF ~dbst_bal.ok THEN dbst_bal
        ELSE IF ~(dbst_bal.v >= 0) THEN Ok(<<>>)
        ELSE Ok(<< KiwoomCashRecord(dbst_bal.v) >>)

\* the cash part of KiwoomAPI._parse_domestic
KiwoomCash(data) ==
    LET dbst_bal == safe_int(Get(data, "dbst_bal"))
    IN  IF ~dbst_bal.ok THEN dbst_bal
        ELSE IF ~(dbst_bal.v > 0) THEN Ok(<<>>)
        ELSE Ok(<< KiwoomCashRecord(dbst_bal.v) >>)

\* the parser without its return_code test
Kiwoom_parse_domestic_IgnoresStatus(data) ==
    LET it == Iterate(GetD(data, "day_bal_rt", JList(<<>>)))
    IN  IF ~it.ok THEN it
        ELSE Then(Collect([i \in 1..Len(it.v) |-> KiwoomStock(it.v[i])]),
                  KiwoomCash(data))

\* KiwoomAPI._parse_domestic
Kiwoom_parse_domestic(data) ==
    IF NotEqualZero(Get(data, "return_code")) THEN Ok(<<>>)
    ELSE
    LET it == Iterate(GetD(data, "day_bal_rt", JList(<<>>)))
    IN  IF ~it.ok THEN it
        ELSE Then(Collect([i \in 1..Len(it.v) |-> KiwoomStock(it.v[i])]),
                  KiwoomCash(data))

(***************************************************************************)
(* Token cache: BaseAPI, KISApi and KiwoomAPI token handling               *)
(***************************************************************************)
TOKEN_BUFFER_SEC == 300
KIWOOM_DEFAULT_TTL == 1800

\* A token string as the broker issues it.  `for` (the app key it was issued
\* to) and `n` (the number of the issuance call that produced it) identify
\* the token; the program reads neither.
JTok(app_key, n) == [t |-> "str", s |-> "token", for |-> app_key, n |-> n]

\* An HTTP exchange as requests reports it: a transport failure (timeout,
\* connection error) or a response with a status and a body that is JSON or not
Timeout == [kind |-> "timeout", status |-> 0, json |-> FALSE, body |-> EmptyDict]
Http(status, body) == [kind |-> "http", status |-> status, json |-> TRUE, body |-> body]
HttpNotJson(status) == [kind |-> "http", status |-> status, json |-> FALSE, body |-> EmptyDict]

\* res.raise_for_status(): HTTPError for 4xx and 5xx
RaisesForStatus(res) == res.status >= 400 /\ res.status < 600

\* The strings of the model's vocabulary that Python's int() accepts
IntegerStrings == { "0", "1", "10", "-5", "50000", "55000", "550000" }
\* int(x) for a JSON value x
PyIntJ(j) ==
    CASE j.t = "str"  -> IF j.s \in IntegerStrings
                         THEN PyInt(StrToFloat(j.s)) ELSE Raise("ValueError")
      [] j.t = "num"  -> PyInt(Fin(j.v))
      [] j.t = "bool" -> Ok(IF j.b THEN 1 ELSE 0)
      [] OTHER        -> Raise("TypeError")

\* BaseAPI.__init__ with the subclass constructors: a new client object
TokenKey(account_prefix, cls) == <<"token", account_prefix, cls>>
NewKISApi(app_key, app_secret, account_no, account_type) ==
    [ cls |-> "KISApi", app_key |-> app_key, app_secret |-> app_secret,
      account_no |-> account_no, account_type |-> account_type,
      token_key |-> TokenKey(<<"KIS", account_type>>, "KISApi"),
      _token |-> JNull ]
NewKiwoomAPI(app_key, app_secret, account_no) ==
    [ cls |-> "KiwoomAPI", app_key |-> app_key, app_secret |-> app_secret,
      account_no |-> account_no, account_type |-> "C",
      token_key |-> TokenKey(<<"KIWOOM", "C">>, "KiwoomAPI"),
      _token |-> JNull ]

\* What a call on a client leaves behind: whether it raised, what it
\* returned, the session store and the client after it, and how many
\* issuance requests it sent.
Returned(ret, ss, self, issued) ==
    [raised |-> FALSE, exc |-> "", ret |-> ret, ss |-> ss, self |-> self, issued |-> issued]
Raised(exc, ss, self, issued) ==
    [raised |-> TRUE, exc |-> exc, ret |-> JNull, ss |-> ss, self |-> self, issued |-> issued]

\* _extract_token that looks at the token field first
Base_extract_token_PrefersToken(data) == Or(Get(data, "token"), Get(data, "access_token"))

\* BaseAPI._extract_token and its KiwoomAPI override
Base_extract_token(data) == Or(Get(data, "access_token"), Get(data, "token"))
Kiwoom_extract_token(data) == Or(Get(data, "token"), Get(data, "access_token"))
ExtractToken(self, data) ==
    IF self.cls = "KiwoomAPI" THEN Kiwoom_extract_token(data) ELSE Base_extract_token(data)

\* st.session_state[key] = value
Store(ss, key, value) == [k \in DOMAIN ss \cup {key} |-> IF k = key THEN value ELSE ss[k]]

\* _save_token that stores whatever it extracted
save_token_Unconditional(self, ss, data, expires_at) ==
    << Store(ss, self.token_key,
             [token |-> ExtractToken(self, data), expires_at |-> expires_at]),
       [self EXCEPT !._token = ExtractToken(self, data)] >>

\* BaseAPI._save_token: <<session store, client>> after the call
save_token(self, ss, data, expires_at) ==
    LET token == ExtractToken(self, data)
    IN  IF Truthy(token)
        THEN << Store(ss, self.token_key, [token |-> token, expires_at |-> expires_at]),
                [self EXCEPT !._token = token] >>
        ELSE << ss, self >>

\* KISApi._issue_token that forgets to subtract the buffer
KIS_issue_token_NoBuffer(self, ss, t, res) ==
    IF res.kind = "timeout" THEN Raised("Timeout", ss, self, 1)
    ELSE IF RaisesForStatus(res) THEN Raised("HTTPError", ss, self, 1)
    ELSE IF ~res.json THEN Raised("JSONDecodeError", ss, self, 1)
    ELSE IF "expires_in" \notin DOMAIN res.body.d THEN Raised("KeyError", ss, self, 1)
    ELSE
    LET ttl == PyIntJ(res.body.d["expires_in"])
    IN  IF ~ttl.ok THEN Raised(ttl.exc, ss, self, 1)
        ELSE LET saved == save_token(self, ss, res.body, t + ttl.v)
             IN  Returned(saved[2]._token, saved[1], saved[2], 1)

\* KISApi._issue_token, given the broker's answer res to the POST at time t
KIS_issue_token(self, ss, t, res) ==
    IF res.kind = "timeout" THEN Raised("Timeout", ss, self, 1)
    ELSE IF RaisesForStatus(res) THEN Raised("HTTPError", ss, self, 1)
    ELSE IF ~res.json THEN Raised("JSONDecodeError", ss, self, 1)
    ELSE
    LET data == res.body
    IN  IF "expires_in" \notin DOMAIN data.d THEN Raised("KeyError", ss, self, 1)
        ELSE
        LET ttl == PyIntJ(data.d["expires_in"])
        IN  IF ~ttl.ok THEN Raised(ttl.exc, ss, self, 1)
            ELSE
            LET expires_at == t + ttl.v - TOKEN_BUFFER_SEC
                saved == save_token(self, ss, data, expires_at)
            IN  Returned(saved[2]._token, saved[1], saved[2], 1)

\* datetime.strptime(s, "%Y%m%d%H%M%S").replace(tzinfo=KST).timestamp() on the
\* timestamp strings of the model's vocabulary; every other string raises
\* ValueError.  KST is UTC+9, so 1970-01-01 09:00:00 KST is epoch 0.
TimestampStrings ==
    { "19700101090000", "19700101090500", "19700101090501",
      "19700101091000", "19700101092000", "19700101100000" }
StrptimeKST(s) ==
    CASE s = "19700101090000" -> 0
      [] s = "19700101090500" -> 300
      [] s = "19700101090501" -> 301
      [] s = "19700101091000" -> 600
      [] s = "19700101092000" -> 1200
      [] s = "19700101100000" -> 3600
Strptime(j) ==
    IF j.t # "str" THEN Raise("TypeError")
    ELSE IF j.s \in TimestampStrings THEN Ok(StrptimeKST(j.s))
    ELSE Raise("ValueError")

\* KiwoomAPI._issue_token, given the broker's answer res to the POST at time t
Kiwoom_issue_token(self, ss, t, res) ==
    IF res.kind = "timeout" THEN Raised("Timeout", ss, self, 1)
    ELSE IF RaisesForStatus(res) THEN Raised("HTTPError", ss, self, 1)
    ELSE IF ~res.json THEN Raised("JSONDecodeError", ss, self, 1)
    ELSE
    LET data == res.body
        dt == IF "expires_dt" \in DOMAIN data.d
              THEN Strptime(data.d["expires_dt"]) ELSE Raise("ValueError")
    IN  IF ~dt.ok /\ dt.exc # "ValueError" THEN Raised(dt.exc, ss, self, 1)
        ELSE
        LET expires_at == (IF dt.ok THEN dt.v ELSE t + KIWOOM_DEFAULT_TTL)
                            - TOKEN_BUFFER_SEC
            saved == save_token(self, ss, data, expires_at)
        IN  Returned(saved[2]._token, saved[1], saved[2], 1)

\* self._issue_token(), dispatched on the client's class
issue_token(self, ss, t, res) ==
    IF self.cls = "KiwoomAPI" THEN Kiwoom_issue_token(self, ss, t, res)
    ELSE KIS_issue_token(self, ss, t, res)

\* The expiry test with the boundary on the wrong side
Reusable_AtExpiry(ss, key, t) == key \in DOMAIN ss /\ ss[key].expires_at >= t

\* The cached entry is reused: it exists and expires strictly after now
Reusable(ss, key, t) == key \in DOMAIN ss /\ ss[key].expires_at > t

\* get_token that reuses whatever entry it finds, expired or not
get_token_IgnoresExpiry(self, ss, t, res) ==
    IF self.token_key \in DOMAIN ss
    THEN Returned(ss[self.token_key].token, ss, self, 0)
    ELSE issue_token(self, ss, t, res)

\* get_token that never looks at the cache
get_token_NoCache(self, ss, t, res) == issue_token(self, ss, t, res)

\* BaseAPI.get_token at time t; res is the broker's answer if it is asked
get_token(self, ss, t, res) ==
    IF Reusable(ss, self.token_key, t)
    THEN Returned(ss[self.token_key].token, ss, self, 0)
    ELSE issue_token(self, ss, t, res)

(***************************************************************************)
(* State                                                                   *)
(***************************************************************************)
VARIABLES
    now,            \* now_kst().timestamp(), in seconds
    session_state,  \* st.session_state: token key -> {token, expires_at}
    api,            \* the client object at hand (the variable `api`)
    issueCalls,     \* issuance requests sent to the brokers so far
    last,           \* the get_token call just made: its inputs and what it did
    config,         \* the configuration provider: slot -> credential fields
    pc,             \* where collect_all_assets stands
    all_assets,     \* its accumulator
    result,         \* what its last run returned or raised
    fetched,        \* what each balance fetch of the run returned or raised
    runs,           \* how many runs have started
    lastFetch,      \* the balance fetch just made: its inputs and what it did
    p_kind,         \* parser under study
    p_acct,         \* its client's account_type
    p_data,         \* the payload given to it
    p_out,          \* what it returned or raised
    f_name,         \* pure function under study
    f_in,           \* the arguments given to it
    f_out,          \* what it returned or raised
    callers,        \* concurrent callers of get_token: where each one stands
    workers         \* per-account bodies run side by side: where each one stands

tokenVars == <<now, session_state, api, issueCalls, last>>
collectVars == <<config, pc, all_assets, result, fetched, runs, lastFetch>>
parseVars == <<p_kind, p_acct, p_data, p_out>>
fnVars == <<f_name, f_in, f_out>>
vars == <<tokenVars, collectVars, parseVars, fnVars, callers, workers>>

\* Bounds of the model
MaxIssue == 2
MaxTicks == 2

(***************************************************************************)
(* Inputs: credentials and broker answers                                  *)
(***************************************************************************)
\* The credential sets of a deployment: the individual KIS account (and the
\* key that replaces it when the key is rotated), the corporate KIS account
\* and the Kiwoom account
CredP  == [app_key |-> "keyP",  app_secret |-> "secP",  account_no |-> "12345678-01"]
CredP2 == [app_key |-> "keyP2", app_secret |-> "secP2", account_no |-> "12345678-01"]
CredC  == [app_key |-> "keyC",  app_secret |-> "secC",  account_no |-> "87654321-01"]
CredK  == [app_key |-> "keyK",  app_secret |-> "secK",  account_no |-> "5555-6666"]
\* the arguments clients are constructed with
KISClientArgs == { <<CredP, "P">>, <<CredP2, "P">>, <<CredC, "C">> }
KiwoomClientArgs == { CredK }
\* advertised lifetimes, in seconds, and how far the clock jumps
ExpiresInValues == {300, 601}
TickStep == TOKEN_BUFFER_SEC

\* The answers the KIS token endpoint may give to issuance call number n
KISTokenBodies(app_key, n) ==
    LET tok == JTok(app_key, n)
    IN  { JDict([access_token |-> tok, expires_in |-> JNum(e * 10)]) : e \in ExpiresInValues }
        \cup
        { JDict([token |-> tok, expires_in |-> JStr("50000")]),
          JDict([access_token |-> JStr(""), expires_in |-> JNum(9000)]),
          JDict([expires_in |-> JNum(9000)]),
          JDict([access_token |-> tok]),
          JDict([access_token |-> tok, expires_in |-> JStr("abc")]) }

\* The answers the Kiwoom token endpoint may give to issuance call number n
KiwoomTokenBodies(app_key, n) ==
    LET tok == JTok(app_key, n)
    IN  { JDict([token |-> tok, expires_dt |-> JStr(ts)]) :
              ts \in {"19700101090500", "19700101092000"} }
        \cup
        { JDict([access_token |-> tok, expires_dt |-> JStr("19700101092000")]),
          JDict([token |-> tok]),
          JDict([token |-> tok, expires_dt |-> JStr("garbage")]),
          JDict([token |-> tok, expires_dt |-> JNum(12000)]),
          JDict([return_code |-> JNum(30), return_msg |-> JStr("abc")]) }

TokenResponses(self, n) ==
    LET bodies == IF self.cls = "KiwoomAPI" THEN KiwoomTokenBodies(self.app_key, n)
                  ELSE KISTokenBodies(self.app_key, n)
    IN  { Timeout, HttpNotJson(200), Http(500, JDict([error |-> JStr("abc")])) }
        \cup { Http(200, b) : b \in bodies }

(***************************************************************************)
(* The token cache as a state machine: clients are constructed, call       *)
(* get_token, and time passes                                              *)
(***************************************************************************)
NoClient ==
    [ cls |-> "none", app_key |-> "", app_secret |-> "", account_no |-> "",
      account_type |-> "", token_key |-> <<>>, _token |-> JNull ]

\* The entry under a key, as an observation
Entry(ss, key) ==
    IF key \in DOMAIN ss
    THEN [present |-> TRUE, token |-> ss[key].token, expires_at |-> ss[key].expires_at]
    ELSE [present |-> FALSE, token |-> JNull, expires_at |-> 0]

\* no request was sent
NoAnswer == [kind |-> "none", status |-> 0, json |-> FALSE, body |-> EmptyDict]

NoCall ==
    [ op |-> "none", self |-> NoClient, t |-> 0, calls |-> 0,
      pre |-> Entry(<<>>, <<>>), res |-> NoAnswer,
      raised |-> FALSE, exc |-> "", ret |-> JNull, issued |-> 0,
      post |-> Entry(<<>>, <<>>), after |-> NoClient ]

Observe(self, ss, t, calls, res, out) ==
    [ op |-> "get_token", self |-> self, t |-> t, calls |-> calls,
      pre |-> Entry(ss, self.token_key),
      res |-> IF out.issued = 0 THEN NoAnswer ELSE res,
      raised |-> out.raised, exc |-> out.exc, ret |-> out.ret, issued |-> out.issued,
      post |-> Entry(out.ss, self.token_key), after |-> out.self ]

\* The configuration slots collect_all_assets reads, in its order, and what
\* the provider may hold in one: all three values, none, or some
Slots == { <<"P", "kis">>, <<"C", "kis">>, <<"C", "kiwoom">> }
Unset == [app_key |-> "", app_secret |-> "", account_no |-> ""]
NoResult == [state |-> "none", assets |-> <<>>, exc |-> ""]
NoFetch ==
    [ op |-> "none", kind |-> "", asked |-> FALSE, res |-> NoAnswer,
      raised |-> FALSE, exc |-> "", ret |-> <<>> ]

TokenInit ==
    /\ now = 0
    /\ session_state = <<>>
    /\ api = NoClient
    /\ issueCalls = 0
    /\ last = NoCall

ParseIdle ==
    /\ p_kind = "none"
    /\ p_acct = "P"
    /\ p_data = EmptyDict
    /\ p_out = Raise("idle")

CollectIdle ==
    /\ config = [slot \in Slots |-> Unset]
    /\ pc = "idle"
    /\ all_assets = <<>>
    /\ result = NoResult
    /\ fetched = <<>>
    /\ runs = 0
    /\ lastFetch = NoFetch

FnIdle ==
    /\ f_name = "none"
    /\ f_in = <<>>
    /\ f_out = Raise("idle")

\* nobody is inside get_token concurrently
RaceIdle == callers = <<>> /\ workers = <<>>

Init == TokenInit /\ CollectIdle /\ ParseIdle /\ FnIdle /\ RaceIdle

\* api = KISApi(app_key, app_secret, account_no, account_type)
ConstructKIS(cred, account_type) ==
    /\ api' = NewKISApi(cred.app_key, cred.app_secret, cred.account_no, account_type)
    /\ last' = NoCall
    /\ UNCHANGED <<now, session_state, issueCalls, collectVars, parseVars, fnVars, callers, workers>>

\* api = KiwoomAPI(app_key, app_secret, account_no)
ConstructKiwoom(cred) ==
    /\ api' = NewKiwoomAPI(cred.app_key, cred.app_secret, cred.account_no)
    /\ last' = NoCall
    /\ UNCHANGED <<now, session_state, issueCalls, collectVars, parseVars, fnVars, callers, workers>>

\* api.get_token(); the broker answers res if the call asks it
CallGetToken ==
    /\ api # NoClient
    /\ Reusable(session_state, api.token_key, now) \/ issueCalls < MaxIssue
    /\ \E res \in TokenResponses(api, issueCalls + 1) :
          LET out == get_token(api, session_state, now, res)
          IN  /\ session_state' = out.ss
              /\ api' = out.self
              /\ issueCalls' = issueCalls + out.issued
              /\ last' = Observe(api, session_state, now, issueCalls, res, out)
    /\ UNCHANGED <<now, collectVars, parseVars, fnVars, callers, workers>>

\* time passes
Tick ==
    /\ now < MaxTicks * TickStep
    /\ now' = now + TickStep
    /\ last' = NoCall
    /\ UNCHANGED <<session_state, api, issueCalls, collectVars, parseVars, fnVars, callers, workers>>

Next ==
    \/ \E args \in KISClientArgs : ConstructKIS(args[1], args[2])
    \/ \E cred \in KiwoomClientArgs : ConstructKiwoom(cred)
    \/ CallGetToken
    \/ Tick

Spec == Init /\ [][Next]_vars

(***************************************************************************)
(* The parsers applied to broker payloads                                  *)
(***************************************************************************)
MaxHoldings == 2

\* what a broker may send in a quantity field
QtyValues ==
    { JNull, JStr("abc"), JStr("0"), JStr("10"), JStr("-5"), JStr("0.5"),
      JStr("inf"), JStr("nan"), JNum(0), JNum(30) }
\* what a broker may send in a cash field
CashValues ==
    { JNull, JStr("abc"), JStr("0"), JStr("10"), JStr("-5"), JStr("0.5"),
      JStr("inf"), JNum(30) }

\* the field that holds the quantity, and the list that holds the holdings
QtyField(kind) ==
    CASE kind = "kis_domestic" -> "hldg_qty"
      [] kind = "kis_overseas" -> "ccld_qty_smtl1"
      [] kind = "kiwoom"       -> "rmnd_qty"
HoldingsField(kind) == IF kind = "kiwoom" THEN "day_bal_rt" ELSE "output1"
CashField(kind) ==
    CASE kind = "kis_domestic" -> "nxdy_excc_amt"
      [] kind = "kis_overseas" -> "frcr_dncl_amt_2"
      [] kind = "kiwoom"       -> "dbst_bal"

\* the other fields of a holding, as the broker fills them
HoldingDetails(kind) ==
    CASE kind = "kis_domestic" ->
            [ pdno |-> JStr("005930"), prdt_name |-> JStr("Samsung"),
              pchs_avg_pric |-> JStr("50000"), prpr |-> JStr("55000"),
              evlu_amt |-> JStr("550000"), evlu_pfls_amt |-> JStr("50000"),
              evlu_pfls_rt |-> JStr("10") ]
      [] kind = "kis_overseas" ->
            [ pdno |-> JStr("AAPL"), prdt_name |-> JStr("Apple"),
              avg_unpr3 |-> JStr("0"), pchs_avg_pric |-> JStr("2.7"),
              ovrs_now_pric1 |-> JStr("10"), frcr_evlu_amt2 |-> JStr("10"),
              evlu_pfls_amt2 |-> JStr("-5"), evlu_pfls_rt1 |-> JStr("0.5"),
              buy_crcy_cd |-> JStr("USD") ]
      [] kind = "kiwoom" ->
            [ stk_cd |-> JStr("005930"), stk_nm |-> JStr("Samsung"),
              buy_uv |-> JStr("50000"), cur_prc |-> JStr("55000"),
              evlt_amt |-> JStr("550000"), evltv_prft |-> JStr("50000"),
              prft_rt |-> JStr("10") ]

\* the amount field of a holding: evlu_amt, or evlt_amt for Kiwoom
AmountField(kind) == IF kind = "kiwoom" THEN "evlt_amt" ELSE "evlu_amt"

\* The entries a holdings list may contain: full holdings with any quantity,
\* a holding without a quantity field, a holding with nothing but a
\* quantity, a holding with an infinite amount, and entries that are not
\* objects
Holdings(kind) ==
    { JDict((QtyField(kind) :> q) @@ HoldingDetails(kind)) : q \in QtyValues }
    \cup
    { JDict(HoldingDetails(kind)),
      JDict(QtyField(kind) :> JStr("10")),
      JDict((QtyField(kind) :> JStr("10")) @@ (AmountField(kind) :> JStr("inf"))),
      JStr("abc") }

\* sequences of at most n elements of S
SeqsUpTo(S, n) == UNION { [1..k -> S] : k \in 0..n }

\* The cash part of a payload, as fields of the object the parser reads
CashParts(kind) ==
    IF kind = "kiwoom"
    THEN { (CashField(kind) :> c) : c \in CashValues } \cup { <<>> }
    ELSE { ("output2" :> JList(<< JDict((CashField(kind) :> c) @@ ("crcy_cd" :> JStr("USD"))) >>)) :
               c \in CashValues }
         \cup
         { <<>>,
           "output2" :> JList(<<>>),
           "output2" :> JList(<< JDict("crcy_cd" :> JStr("USD")) >>),
           "output2" :> JList(<< JStr("abc") >>) }

\* The status part of a payload
StatusParts(kind) ==
    IF kind = "kiwoom"
    THEN { "return_code" :> JNum(0), "return_code" :> JNum(30),
           "return_code" :> JStr("0"), <<>> }
    ELSE { "rt_cd" :> JStr("0") }

Payloads(kind) ==
    { JDict(st @@ (HoldingsField(kind) :> JList(hs)) @@ cash) :
          st \in StatusParts(kind),
          hs \in SeqsUpTo(Holdings(kind), MaxHoldings),
          cash \in CashParts(kind) }

ParserKinds == {"kis_domestic", "kis_overseas", "kiwoom"}
Pending == Raise("pending")

TokenIdle ==
    /\ now = 0
    /\ session_state = <<>>
    /\ api = NoClient
    /\ issueCalls = 0
    /\ last = NoCall

ParseInit ==
    /\ p_kind \in ParserKinds
    /\ p_acct \in (IF p_kind = "kiwoom" THEN {"C"} ELSE {"P", "C"})
    /\ p_data \in Payloads(p_kind)
    /\ p_out = Pending
    /\ TokenIdle
    /\ CollectIdle
    /\ FnIdle
    /\ RaceIdle

\* KISApi._parse_domestic(data)
ParseKISDomestic ==
    /\ p_kind = "kis_domestic"
    /\ p_out.exc = "pending"
    /\ p_out' = KIS_parse_domestic(p_acct, p_data)
    /\ UNCHANGED <<p_kind, p_acct, p_data, tokenVars, collectVars, fnVars, callers, workers>>

\* KISApi._parse_overseas(data)
ParseKISOverseas ==
    /\ p_kind = "kis_overseas"
    /\ p_out.exc = "pending"
    /\ p_out' = KIS_parse_overseas(p_acct, p_data)
    /\ UNCHANGED <<p_kind, p_acct, p_data, tokenVars, collectVars, fnVars, callers, workers>>

\* KiwoomAPI._parse_domestic(data)
ParseKiwoom ==
    /\ p_kind = "kiwoom"
    /\ p_out.exc = "pending"
    /\ p_out' = Kiwoom_parse_domestic(p_data)
    /\ UNCHANGED <<p_kind, p_acct, p_data, tokenVars, collectVars, fnVars, callers, workers>>

ParseNext == ParseKISDomestic \/ ParseKISOverseas \/ ParseKiwoom

SpecParse == ParseInit /\ [][ParseNext]_vars

(***************************************************************************)
(* Properties of the parsers                                               *)
(***************************************************************************)
\* the holdings and the cash field value of the payload under study
PayloadHoldings == p_data.d[HoldingsField(p_kind)].l
PayloadCash ==
    IF p_kind = "kiwoom" THEN Get(p_data, "dbst_bal")
    ELSE LET o2 == GetD(p_data, "output2", JList(<<>>))
         IN  IF Len(o2.l) > 0 /\ o2.l[1].t = "dict"
             THEN Get(o2.l[1], CashField(p_kind)) ELSE JNull

RecordsOf(type) == SelectSeq(p_out.v, LAMBDA r : r.asset_type = type)

\* The quantity values that denote a whole number of shares above zero once
\* truncated: all others (missing, null, non-numeric, zero, a fraction below
\* one, a negative number) parse to no positive quantity
PositiveQuantities == { JStr("10"), JNum(30) }
HasPositiveQuantity(h) ==
    h.t = "dict" /\ Get(h, QtyField(p_kind)) \in PositiveQuantities
\* the number of holdings of the payload with a positive quantity
PositiveHoldings ==
    Cardinality({ i \in 1..Len(PayloadHoldings) : HasPositiveQuantity(PayloadHoldings[i]) })

\* The cash values that are above zero as the parser reads them: the KIS
\* domestic and Kiwoom parsers read whole amounts, the KIS overseas parser
\* reads fractions and infinity too
PositiveCash ==
    IF p_kind = "kis_overseas"
    THEN { JStr("10"), JStr("0.5"), JStr("inf"), JNum(30) }
    ELSE { JStr("10"), JNum(30) }

\* C9: for every parser and payload, a holding whose quantity parses to no
\* positive number (missing, null, non-numeric, zero or negative) produces no
\* stock record: every emitted stock record has quantity > 0, and there are
\* no more stock records than holdings with a positive quantity.
C9_NoStockWithoutQuantity ==
    p_out.ok
        => /\ \A i \in 1..Len(p_out.v) :
                 p_out.v[i].asset_type = "stock" => p_out.v[i].quantity > 0
           /\ Len(RecordsOf("stock")) <= PositiveHoldings

C9_Witness ==
    /\ p_out.ok
    /\ Len(PayloadHoldings) = 2
    /\ PayloadHoldings[1].t = "dict"
    /\ PayloadHoldings[2].t = "dict"
    /\ Get(PayloadHoldings[1], QtyField(p_kind)) = JStr("-5")
    /\ Get(PayloadHoldings[2], QtyField(p_kind)) = JStr("10")
    /\ Len(RecordsOf("stock")) = 1
    /\ RecordsOf("stock")[1].quantity = 10

\* C10: for every parser and payload, a cash field that parses to a value
\* <= 0 (missing and non-numeric included) produces no cash record: every
\* emitted cash record has eval_amount > 0, and a cash record is emitted only
\* for a cash field with a positive value.
C10_NoCashWithoutAmount ==
    p_out.ok
        => /\ \A i \in 1..Len(p_out.v) :
                 p_out.v[i].asset_type = "cash" => GtZero(p_out.v[i].eval_amount)
           /\ Len(RecordsOf("cash")) <= (IF PayloadCash \in PositiveCash THEN 1 ELSE 0)

C10_Witness ==
    /\ p_out.ok
    /\ PayloadCash = JStr("-5")
    /\ Len(PayloadHoldings) = 1
    /\ Len(RecordsOf("stock")) = 1
    /\ Len(RecordsOf("cash")) = 0

\* the 14 fields of a StandardAssetRecord
RecordFields ==
    { "broker", "account_type", "account_label", "market", "asset_type", "ticker",
      "name", "quantity", "avg_buy_price", "current_price", "eval_amount",
      "profit_loss", "profit_rate", "currency" }

\* C12: every record emitted by any parser carries exactly the 14 fields of
\* a StandardAssetRecord, each with a present (non-null) value, whatever the
\* payload omits.
C12_FullRecordShape ==
    p_out.ok
        => \A i \in 1..Len(p_out.v) :
              /\ DOMAIN p_out.v[i] = RecordFields
              /\ p_out.v[i].ticker # JNull
              /\ p_out.v[i].name # JNull
              /\ p_out.v[i].currency # JNull

\* the cash amount as the parser under study reads it
ParsedCash ==
    IF p_kind = "kis_overseas" THEN safe_float(PayloadCash).v
    ELSE FromInt(safe_int(PayloadCash).v)

\* C13: every cash record emitted by any parser has quantity = 1,
\* avg_buy_price = current_price = eval_amount = the parsed cash amount,
\* profit_loss = 0 and profit_rate = 0, and its ticker equals its currency.
C13_CashRecordShape ==
    p_out.ok
        => \A i \in 1..Len(p_out.v) :
              p_out.v[i].asset_type = "cash"
                  => /\ p_out.v[i].quantity = 1
                     /\ p_out.v[i].eval_amount = ParsedCash
                     /\ p_out.v[i].avg_buy_price = ParsedCash
                     /\ p_out.v[i].current_price = ParsedCash
                     /\ p_out.v[i].profit_loss = Fin(0)
                     /\ p_out.v[i].profit_rate = Fin(0)
                     /\ p_out.v[i].ticker = p_out.v[i].currency

C13_Witness ==
    /\ p_out.ok
    /\ PayloadCash = JStr("10")
    /\ Len(RecordsOf("cash")) = 1
    /\ RecordsOf("cash")[1].eval_amount = Fin(100)
    /\ RecordsOf("cash")[1].quantity = 1
    /\ Len(RecordsOf("stock")) = 1

\* C14: for every Kiwoom payload whose return_code is not 0 (another value,
\* or absent), KiwoomAPI._parse_domestic returns an empty list and raises
\* nothing, whatever holdings and deposit the payload carries.
C14_KiwoomFailureStatus ==
    (p_kind = "kiwoom" /\ p_out.exc # "pending" /\ Get(p_data, "return_code") # JNum(0))
        => p_out.ok /\ Len(p_out.v) = 0

C14_Witness ==
    /\ p_kind = "kiwoom"
    /\ Get(p_data, "return_code") = JNum(30)
    /\ Len(PayloadHoldings) = 1
    /\ HasPositiveQuantity(PayloadHoldings[1])
    /\ PayloadCash = JStr("10")
    /\ p_out.ok
    /\ Len(p_out.v) = 0

\* the holdings of the payload with a positive quantity, in payload order
PositiveHoldingsSeq == SelectSeq(PayloadHoldings, HasPositiveQuantity)

\* a numeric field that int(float(...)) can read or default: not an infinity
Finite(j) == j \notin { JStr("inf"), JStr("-inf") }
\* A KIS domestic payload all of whose holdings are objects with finite
\* numbers, and whose first cash entry, if any, is such an object too
WellFormedDomestic ==
    /\ \A i \in 1..Len(PayloadHoldings) :
          /\ PayloadHoldings[i].t = "dict"
          /\ Finite(Get(PayloadHoldings[i], "hldg_qty"))
          /\ Finite(Get(PayloadHoldings[i], "evlu_amt"))
          /\ Finite(Get(PayloadHoldings[i], "evlu_pfls_amt"))
    /\ LET o2 == GetD(p_data, "output2", JList(<<>>))
       IN  Len(o2.l) > 0 => o2.l[1].t = "dict" /\ Finite(Get(o2.l[1], "nxdy_excc_amt"))

\* the holding of the scenario: hldg_qty "10", pchs_avg_pric "50000",
\* prpr "55000", evlu_amt "550000", evlu_pfls_amt "50000"
ScenarioHolding == JDict(("hldg_qty" :> JStr("10")) @@ HoldingDetails("kis_domestic"))

\* C15: KISApi._parse_domestic emits, for every holding whose hldg_qty
\* parses to a positive integer, exactly one stock record with
\* quantity = hldg_qty, avg_buy_price = pchs_avg_pric, current_price = prpr,
\* eval_amount = evlu_amt, profit_loss = evlu_pfls_amt, market domestic and
\* currency KRW, in payload order; it returns on every payload whose entries
\* are objects with finite numbers; and the payload with the one holding of
\* the scenario and no cash yields exactly that one record with quantity 10,
\* avg_buy_price 50000.0, current_price 55000.0, eval_amount 550000 and
\* profit_loss 50000.
C15_KISDomesticScenario ==
    (p_kind = "kis_domestic" /\ p_out.exc # "pending")
        => /\ WellFormedDomestic => p_out.ok
           /\ p_out.ok =>
                /\ Len(RecordsOf("stock")) = Len(PositiveHoldingsSeq)
                /\ \A i \in 1..Len(PositiveHoldingsSeq) :
                      LET rec == RecordsOf("stock")[i]
                          h == PositiveHoldingsSeq[i]
                      IN  /\ rec.quantity = safe_int(Get(h, "hldg_qty")).v
                          /\ rec.avg_buy_price = safe_float(Get(h, "pchs_avg_pric")).v
                          /\ rec.current_price = safe_float(Get(h, "prpr")).v
                          /\ rec.eval_amount = FromInt(safe_int(Get(h, "evlu_amt")).v)
                          /\ rec.profit_loss = FromInt(safe_int(Get(h, "evlu_pfls_amt")).v)
                          /\ rec.market = "domestic"
                          /\ rec.currency = JStr("KRW")
           /\ (PayloadHoldings = <<ScenarioHolding>> /\ "output2" \notin DOMAIN p_data.d)
                => /\ p_out.ok
                   /\ Len(p_out.v) = 1
                   /\ p_out.v[1].asset_type = "stock"
                   /\ p_out.v[1].quantity = 10
                   /\ p_out.v[1].avg_buy_price = Fin(500000)
                   /\ p_out.v[1].current_price = Fin(550000)
                   /\ p_out.v[1].eval_amount = Fin(5500000)
                   /\ p_out.v[1].profit_loss = Fin(500000)
                   /\ p_out.v[1].currency = JStr("KRW")

C15_Witness ==
    /\ p_kind = "kis_domestic"
    /\ PayloadHoldings = <<ScenarioHolding>>
    /\ "output2" \notin DOMAIN p_data.d
    /\ p_out.ok
    /\ Len(p_out.v) = 1
    /\ p_out.v[1].quantity = 10

\* a holdings entry with every field the parser reads, the quantity finite
CompleteHolding(h) ==
    /\ h.t = "dict"
    /\ DOMAIN HoldingDetails(p_kind) \cup {QtyField(p_kind)} \subseteq DOMAIN h.d
    /\ Finite(Get(h, QtyField(p_kind)))
\* the positions of the holdings list with such an entry, and with another
CompleteEntries == { i \in 1..Len(PayloadHoldings) : CompleteHolding(PayloadHoldings[i]) }
MalformedEntries == (1..Len(PayloadHoldings)) \ CompleteEntries
\* the rest of the payload is in order: a success status, and a cash part
\* that is absent or an object with a finite amount
RestInOrder ==
    /\ p_kind = "kiwoom" => Get(p_data, "return_code") = JNum(0)
    /\ Finite(PayloadCash)
    /\ p_kind # "kiwoom" =>
          LET o2 == GetD(p_data, "output2", JList(<<>>))
          IN  \A i \in 1..Len(o2.l) : o2.l[i].t = "dict"

\* C23: for every payload whose holdings list contains one entry with
\* missing or malformed fields (wrong-typed values, missing keys, or an entry
\* that is not an object), the parser raises nothing, drops at most that
\* entry, and still emits the records of every complete positive-quantity
\* entry of the payload.
C23_MalformedEntryDropped ==
    (p_out.exc # "pending" /\ p_out.exc # "idle" /\ RestInOrder
       /\ Cardinality(MalformedEntries) = 1)
        => /\ p_out.ok
           /\ Len(RecordsOf("stock")) >=
                 Cardinality({ i \in CompleteEntries : HasPositiveQuantity(PayloadHoldings[i]) })

(***************************************************************************)
(* Balance fetches and collect_all_assets                                  *)
(***************************************************************************)
MaxRuns == 1

\* What a balance fetch leaves behind: whether it raised, the records it
\* returned, the session store and the client after it, how many issuance
\* requests it sent, and whether it got as far as asking the balance endpoint
Fetched(recs, tok) ==
    [ raised |-> FALSE, exc |-> "", ret |-> recs, ss |-> tok.ss, self |-> tok.self,
      issued |-> tok.issued, asked |-> TRUE ]
FetchRaised(exc, tok, asked) ==
    [ raised |-> TRUE, exc |-> exc, ret |-> <<>>, ss |-> tok.ss, self |-> tok.self,
      issued |-> tok.issued, asked |-> asked ]

\* what a fetch returns once its payload is parsed
FetchParsed(parsed, tok) ==
    IF parsed.ok THEN Fetched(parsed.v, tok) ELSE FetchRaised(parsed.exc, tok, TRUE)

\* KISApi._request after its get_token call returned tok, followed by
\* `parse(data) if data else []`; res is the balance endpoint's answer
KIS_balance_with_token(kind, self, tok, res) ==
    IF tok.raised THEN FetchRaised(tok.exc, tok, FALSE)
    ELSE IF res.kind = "timeout" THEN FetchRaised("Timeout", tok, TRUE)
    ELSE IF res.status # 200 THEN Fetched(<<>>, tok)
    ELSE IF ~res.json THEN FetchRaised("JSONDecodeError", tok, TRUE)
    ELSE IF Get(res.body, "rt_cd") # JStr("0") THEN Fetched(<<>>, tok)
    ELSE FetchParsed(IF kind = "kis_domestic"
                     THEN KIS_parse_domestic(self.account_type, res.body)
                     ELSE KIS_parse_overseas(self.account_type, res.body),
                     tok)

\* KISApi.get_domestic_balance and get_overseas_balance; tokRes and res are
\* the answers of the token endpoint (if asked) and of the balance endpoint,
\* kind selects the endpoint and its parser
KIS_get_balance(kind, self, ss, t, tokRes, res) ==
    KIS_balance_with_token(kind, self, get_token(self, ss, t, tokRes), res)

\* KiwoomAPI.get_domestic_balance after its get_token call returned tok
Kiwoom_balance_with_token(tok, res) ==
    IF tok.raised THEN FetchRaised(tok.exc, tok, FALSE)
    ELSE IF res.kind = "timeout" THEN FetchRaised("Timeout", tok, TRUE)
    ELSE IF RaisesForStatus(res) THEN FetchRaised("HTTPError", tok, TRUE)
    ELSE IF ~res.json THEN FetchRaised("JSONDecodeError", tok, TRUE)
    ELSE FetchParsed(Kiwoom_parse_domestic(res.body), tok)

\* KiwoomAPI.get_domestic_balance
Kiwoom_get_domestic_balance(self, ss, t, tokRes, res) ==
    Kiwoom_balance_with_token(get_token(self, ss, t, tokRes), res)

\* load_account_config: the three values if all are set, else None
load_account_config(cfg, prefix, broker) ==
    LET c == cfg[<<prefix, broker>>]
    IN  IF c.app_key # "" /\ c.app_secret # "" /\ c.account_no # ""
        THEN [some |-> TRUE, app_key |-> c.app_key, app_secret |-> c.app_secret,
              account_no |-> c.account_no]
        ELSE [some |-> FALSE, app_key |-> "", app_secret |-> "", account_no |-> ""]

\* What the configuration provider may hold
Configs ==
    { [slot \in Slots |->
          CASE slot = <<"P", "kis">> -> p
            [] slot = <<"C", "kis">> -> c
            [] slot = <<"C", "kiwoom">> -> k] :
        p \in {CredP, Unset, [CredP EXCEPT !.app_secret = ""]},
        c \in {CredC, Unset},
        k \in {CredK, Unset} }

\* The answers the token endpoints give during a collection
CollectTokenResponses(self, n) ==
    LET tok == JTok(self.app_key, n)
    IN  { Timeout, Http(500, JDict([error |-> JStr("abc")])),
          IF self.cls = "KiwoomAPI"
          THEN Http(200, JDict([token |-> tok, expires_dt |-> JStr("19700101092000")]))
          ELSE Http(200, JDict([access_token |-> tok, expires_in |-> JNum(6010)])) }

\* The payloads a balance endpoint sends during a collection: one holding of
\* 10 shares with a cash balance, nothing at all, a failure status, and a
\* holding whose amount is not a finite number
CollectPayloads(kind) ==
    LET holding == JDict((QtyField(kind) :> JStr("10")) @@ HoldingDetails(kind))
        broken  == JDict((QtyField(kind) :> JStr("10")) @@ (AmountField(kind) :> JStr("inf")))
        ok      == IF kind = "kiwoom" THEN "return_code" :> JNum(0) ELSE "rt_cd" :> JStr("0")
        failure == IF kind = "kiwoom" THEN "return_code" :> JNum(30) ELSE "rt_cd" :> JStr("1")
        cash    == IF kind = "kiwoom" THEN "dbst_bal" :> JStr("10")
                   ELSE "output2" :>
                          JList(<< JDict((CashField(kind) :> JStr("10")) @@ ("crcy_cd" :> JStr("USD"))) >>)
        field   == HoldingsField(kind)
    IN  { JDict(ok @@ (field :> JList(<<holding>>)) @@ cash),
          JDict(ok @@ (field :> JList(<<>>))),
          JDict(failure @@ (field :> JList(<<holding>>)) @@ cash) }
        \cup (IF kind = "kis_overseas" THEN {}
              ELSE { JDict(ok @@ (field :> JList(<<broken>>))) })

BalanceResponses(kind) ==
    { Timeout, HttpNotJson(200), Http(500, JDict([error |-> JStr("abc")])) }
    \cup { Http(200, b) : b \in CollectPayloads(kind) }

CollectInit ==
    /\ TokenIdle
    /\ ParseIdle
    /\ FnIdle
    /\ RaceIdle
    /\ config \in Configs
    /\ pc = "idle"
    /\ all_assets = <<>>
    /\ result = NoResult
    /\ fetched = <<>>
    /\ runs = 0
    /\ lastFetch = NoFetch

ObserveFetch(kind, res, out) ==
    [ op |-> "fetch", kind |-> kind, asked |-> out.asked,
      res |-> IF out.asked THEN res ELSE NoAnswer,
      raised |-> out.raised, exc |-> out.exc, ret |-> out.ret ]

\* collect_all_assets is called: all_assets = []
StartCollect ==
    /\ pc \in {"idle", "done"}
    /\ runs < MaxRuns
    /\ runs' = runs + 1
    /\ pc' = "load_P"
    /\ all_assets' = <<>>
    /\ result' = NoResult
    /\ fetched' = <<>>
    /\ lastFetch' = NoFetch
    /\ UNCHANGED <<config, tokenVars, parseVars, fnVars, callers, workers>>

\* one turn of `for prefix in ["P", "C"]` up to the first fetch: the
\* configuration is loaded and, if complete, a KISApi client is built
LoadKIS(prefix) ==
    /\ pc = IF prefix = "P" THEN "load_P" ELSE "load_C"
    /\ LET cfg == load_account_config(config, prefix, "kis")
       IN  IF ~cfg.some
           THEN /\ pc' = IF prefix = "P" THEN "load_C" ELSE "load_K"
                /\ UNCHANGED api
           ELSE /\ api' = NewKISApi(cfg.app_key, cfg.app_secret, cfg.account_no, prefix)
                /\ pc' = IF prefix = "P" THEN "dom_P" ELSE "dom_C"
    /\ UNCHANGED <<now, session_state, issueCalls, last, config, all_assets, result,
                   fetched, runs, lastFetch, parseVars, fnVars, callers, workers>>

\* the accumulator with the fetched list put in front of it
extend_Prepended(list, recs) == recs \o list

\* all_assets.extend(recs)
extend(list, recs) == list \o recs

\* What the KIS loop does with the outcome of a fetch: an exception leaves
\* collect_all_assets, a list is appended to all_assets
KISFetchDone(prefix, kind, res, out) ==
    /\ session_state' = out.ss
    /\ api' = out.self
    /\ issueCalls' = issueCalls + out.issued
    /\ lastFetch' = ObserveFetch(kind, res, out)
    /\ fetched' = Append(fetched,
                    [account |-> <<prefix, "kis">>, kind |-> kind,
                     raised |-> out.raised, recs |-> out.ret])
    /\ IF out.raised
       THEN /\ pc' = "done"
            /\ result' = [state |-> "raised", assets |-> <<>>, exc |-> out.exc]
            /\ UNCHANGED all_assets
       ELSE /\ all_assets' = extend(all_assets, out.ret)
            /\ pc' = IF kind = "kis_domestic" THEN "ovs_" \o prefix
                     ELSE IF prefix = "P" THEN "load_C" ELSE "load_K"
            /\ UNCHANGED result

\* all_assets.extend(api.get_domestic_balance()) or
\* all_assets.extend(api.get_overseas_balance()) of the KIS loop
KISFetch(prefix, kind) ==
    /\ pc = (IF kind = "kis_domestic" THEN "dom_" ELSE "ovs_") \o prefix
    /\ \E tokRes \in CollectTokenResponses(api, issueCalls + 1),
          res \in BalanceResponses(kind) :
          KISFetchDone(prefix, kind, res,
                       KIS_get_balance(kind, api, session_state, now, tokRes, res))
    /\ UNCHANGED <<now, last, config, runs, parseVars, fnVars, callers, workers>>

\* the Kiwoom part when no Kiwoom account is configured: return all_assets
SkipKiwoom ==
    /\ pc = "load_K"
    /\ ~load_account_config(config, "C", "kiwoom").some
    /\ pc' = "done"
    /\ result' = [state |-> "returned", assets |-> all_assets, exc |-> ""]
    /\ UNCHANGED <<tokenVars, config, all_assets, fetched, runs, lastFetch, parseVars, fnVars, callers, workers>>

\* the Kiwoom part without its try/except: an exception leaves
\* collect_all_assets
KiwoomFetchDone_Uncaught(res, out) ==
    /\ session_state' = out.ss
    /\ api' = out.self
    /\ issueCalls' = issueCalls + out.issued
    /\ lastFetch' = ObserveFetch("kiwoom", res, out)
    /\ fetched' = Append(fetched,
                    [account |-> <<"C", "kiwoom">>, kind |-> "kiwoom",
                     raised |-> out.raised, recs |-> out.ret])
    /\ all_assets' = (IF out.raised THEN all_assets ELSE extend(all_assets, out.ret))
    /\ result' = IF out.raised
                 THEN [state |-> "raised", assets |-> <<>>, exc |-> out.exc]
                 ELSE [state |-> "returned", exc |-> "",
                       assets |-> extend(all_assets, out.ret)]
    /\ pc' = "done"

\* What the Kiwoom part does with the outcome of its fetch: the fetch runs
\* inside try/except Exception, and collect_all_assets returns all_assets
KiwoomFetchDone(res, out) ==
    /\ session_state' = out.ss
    /\ api' = out.self
    /\ issueCalls' = issueCalls + out.issued
    /\ lastFetch' = ObserveFetch("kiwoom", res, out)
    /\ fetched' = Append(fetched,
                    [account |-> <<"C", "kiwoom">>, kind |-> "kiwoom",
                     raised |-> out.raised, recs |-> out.ret])
    /\ all_assets' = (IF out.raised THEN all_assets ELSE extend(all_assets, out.ret))
    /\ result' = [state |-> "returned", exc |-> "",
                  assets |-> IF out.raised THEN all_assets ELSE extend(all_assets, out.ret)]
    /\ pc' = "done"

\* a KiwoomAPI client built from a loaded configuration
KiwoomClient(cfg) == NewKiwoomAPI(cfg.app_key, cfg.app_secret, cfg.account_no)

\* the Kiwoom part when a Kiwoom account is configured
KiwoomFetch ==
    /\ pc = "load_K"
    /\ load_account_config(config, "C", "kiwoom").some
    /\ \E tokRes \in CollectTokenResponses(
                        KiwoomClient(load_account_config(config, "C", "kiwoom")),
                        issueCalls + 1),
          res \in BalanceResponses("kiwoom") :
          KiwoomFetchDone(res,
              Kiwoom_get_domestic_balance(
                  KiwoomClient(load_account_config(config, "C", "kiwoom")),
                  session_state, now, tokRes, res))
    /\ UNCHANGED <<now, last, config, runs, parseVars, fnVars, callers, workers>>

\* time passes between two runs
CollectTick ==
    /\ pc \in {"idle", "done"}
    /\ now < MaxTicks * TickStep
    /\ now' = now + TickStep
    /\ UNCHANGED <<session_state, api, issueCalls, last, collectVars, parseVars, fnVars, callers, workers>>

CollectNext ==
    \/ StartCollect
    \/ \E prefix \in {"P", "C"} : LoadKIS(prefix)
    \/ \E prefix \in {"P", "C"}, kind \in {"kis_domestic", "kis_overseas"} : KISFetch(prefix, kind)
    \/ SkipKiwoom
    \/ KiwoomFetch
    \/ CollectTick

SpecCollect == CollectInit /\ [][CollectNext]_vars

(***************************************************************************)
(* Properties of the fetches and of collect_all_assets                     *)
(***************************************************************************)
RECURSIVE Flatten(_)
Flatten(ss) == IF Len(ss) = 0 THEN <<>> ELSE Head(ss) \o Flatten(Tail(ss))

\* the accounts of the run one of whose fetches raised
FailedAccounts == { fetched[i].account : i \in { j \in 1..Len(fetched) : fetched[j].raised } }

\* the records the fetches of the other accounts returned, in order
RecordsOfOtherAccounts ==
    LET kept == SelectSeq(fetched, LAMBDA f : f.account \notin FailedAccounts)
    IN  Flatten([i \in 1..Len(kept) |-> kept[i].recs])

\* C1: whichever account's client raises during authentication or a balance
\* fetch, collect_all_assets propagates no exception and returns the
\* concatenation of the records of all other accounts.
C1_PartialFailure ==
    pc = "done"
        => /\ result.state = "returned"
           /\ result.assets = RecordsOfOtherAccounts

\* C5: for both brokers, a holdings fetch returns an empty list and raises
\* nothing whenever the balance endpoint answers with a non-success HTTP
\* status or with a 200 response whose body carries a failure status (KIS
\* rt_cd other than "0", Kiwoom return_code other than 0).
FailureAnswer(kind, res) ==
    /\ res.kind = "http"
    /\ \/ res.status # 200
       \/ /\ res.json
          /\ IF kind = "kiwoom"
             THEN Get(res.body, "return_code") # JNum(0)
             ELSE Get(res.body, "rt_cd") # JStr("0")
C5_FetchFailureYieldsEmptyList ==
    (lastFetch.op = "fetch" /\ lastFetch.asked /\ FailureAnswer(lastFetch.kind, lastFetch.res))
        => ~lastFetch.raised /\ lastFetch.ret = <<>>

(***************************************************************************)
(* Properties of the token cache                                           *)
(***************************************************************************)
\* The token the broker hands out in the issuance call that `last` records
FreshToken == JTok(last.self.app_key, last.calls + 1)

\* The answer is a 2xx response
Is2xx(res) == res.kind = "http" /\ res.status >= 200 /\ res.status <= 299

\* The answer's body carries a non-empty access_token or token field
CarriesToken(res) ==
    /\ res.json
    /\ \E k \in {"access_token", "token"} :
          /\ k \in DOMAIN res.body.d
          /\ res.body.d[k].t = "str"
          /\ res.body.d[k].s # ""

\* The answer's body has neither an access_token nor a token field
LacksTokenFields(res) ==
    res.json /\ DOMAIN res.body.d \cap {"access_token", "token"} = {}

\* The answer is a complete token grant for a client of class cls: a 2xx JSON
\* response with a token and, for KIS, an expires_in that is a number or a
\* string of digits; for Kiwoom, an expires_dt that is absent or a string
IsGrant(cls, res) ==
    /\ Is2xx(res)
    /\ CarriesToken(res)
    /\ cls = "KISApi" =>
          /\ "expires_in" \in DOMAIN res.body.d
          /\ \/ res.body.d["expires_in"].t = "num"
             \/ res.body.d["expires_in"] \in {JStr("300"), JStr("50000")}
    /\ cls = "KiwoomAPI" =>
          \/ "expires_dt" \notin DOMAIN res.body.d
          \/ res.body.d["expires_dt"].t = "str"

\* The lifetime in seconds that a KIS grant advertises
AdvertisedLifetime(res) ==
    LET e == res.body.d["expires_in"]
    IN  IF e.t = "num" THEN e.v \div 10
        ELSE IF e = JStr("300") THEN 300 ELSE 50000

\* get_token found nothing it may reuse: no entry, or one with expires_at <= now
MustRefresh == last.op = "get_token" /\ (~last.pre.present \/ last.pre.expires_at <= last.t)

\* C2: if the session store holds an entry under the client's key whose
\* expires_at is strictly greater than now, get_token returns that entry's
\* token, raises nothing, and sends no issuance request (the count of issuance
\* calls is what it was before the call).
C2_TokenReuse ==
    (last.op = "get_token" /\ last.pre.present /\ last.pre.expires_at > last.t)
        => /\ ~last.raised
           /\ last.ret = last.pre.token
           /\ last.issued = 0
           /\ issueCalls = last.calls
           /\ last.post = last.pre

C2_Witness ==
    /\ last.op = "get_token"
    /\ last.pre.present
    /\ last.pre.expires_at > last.t
    /\ last.t > 0
    /\ last.ret = last.pre.token
    /\ issueCalls = last.calls

C4_IssuanceFailsWithoutToken ==
    ( /\ last.op = "get_token"
      /\ last.issued = 1
      /\ last.res.kind = "http"
      /\ (~Is2xx(last.res) \/ LacksTokenFields(last.res)) )
        => last.raised /\ last.ret = JNull

\* C6: get_token never returns to a client a token that was issued for a
\* different credential set than the client's own.
C6_TokenPerCredentialSet ==
    (last.op = "get_token" /\ ~last.raised /\ Truthy(last.ret))
        => last.ret.for = last.self.app_key

\* C7: after a successful KIS issuance at time now with advertised lifetime
\* expires_in, the entry stored under the key has
\* expires_at = now + expires_in - 300.
C7_KISExpiryBuffer ==
    ( /\ last.op = "get_token"
      /\ last.self.cls = "KISApi"
      /\ last.issued = 1
      /\ IsGrant("KISApi", last.res) )
        => /\ last.post.present
           /\ last.post.expires_at
                 = last.t + AdvertisedLifetime(last.res) - 300
           /\ Entry(session_state, last.self.token_key) = last.post

C7_Witness ==
    /\ last.op = "get_token"
    /\ last.self.cls = "KISApi"
    /\ last.issued = 1
    /\ IsGrant("KISApi", last.res)
    /\ last.t = 300
    /\ last.res.body.d["expires_in"] = JNum(6010)
    /\ last.post.expires_at = 601

\* C8: when an issuance attempt fails, get_token retries it once and fails
\* only if the retry fails too: a get_token call that raises has made two
\* issuance attempts.
C8_RetryOnce ==
    (last.op = "get_token" /\ last.raised) => last.issued = 2

\* C27: a failed issuance leaves the token cache unchanged: if the issuance
\* request raises, or its response contains no token, the session-store
\* entry under the cache key is exactly what it was before the call;
\* consequently every entry ever stored has a non-empty token and a numeric
\* expires_at.
C27_FailedIssuanceKeepsCache ==
    /\ (last.op = "get_token" /\ last.issued = 1
          /\ (last.raised \/ ~CarriesToken(last.res)))
          => /\ last.post = last.pre
             /\ Entry(session_state, last.self.token_key) = last.pre
    /\ \A key \in DOMAIN session_state :
          /\ Truthy(session_state[key].token)
          /\ session_state[key].expires_at \in Int

\* an expired entry was found, the broker answered 200 without a token, the
\* call returned without raising, and the entry is still the old one
C27_Witness ==
    /\ last.op = "get_token"
    /\ last.issued = 1
    /\ last.pre.present
    /\ Is2xx(last.res)
    /\ ~CarriesToken(last.res)
    /\ ~last.raised
    /\ last.post = last.pre
    /\ Entry(session_state, last.self.token_key) = last.pre

\* the tokens the brokers hand out in a run
IssuedTokens ==
    { JTok(k, n) : k \in {CredP.app_key, CredP2.app_key, CredC.app_key, CredK.app_key},
                   n \in 1..MaxIssue }

\* The lifetime in seconds a grant advertises at the time of the call: the
\* expires_in of a KIS grant, and for Kiwoom the distance from now to the
\* expires_dt of the grant (the default of 1800 if the grant names none)
LifetimeAt(cls, res, t) ==
    IF cls = "KISApi" THEN AdvertisedLifetime(res)
    ELSE IF "expires_dt" \in DOMAIN res.body.d
              /\ res.body.d["expires_dt"].s \in TimestampStrings
         THEN StrptimeKST(res.body.d["expires_dt"].s) - t
         ELSE KIWOOM_DEFAULT_TTL

\* the call that `last` records was granted the token tok with a lifetime of
\* at most the buffer
ShortGrant(tok) ==
    /\ last.op = "get_token"
    /\ last.issued = 1
    /\ IsGrant(last.self.cls, last.res)
    /\ FreshToken = tok
    /\ LifetimeAt(last.self.cls, last.res, last.t) <= TOKEN_BUFFER_SEC

\* the call that `last` records found the token tok in the store
Found(tok) == last.op = "get_token" /\ last.pre.present /\ last.pre.token = tok

\* C28: if the broker advertises a token lifetime of at most 300 seconds (the
\* buffer), the stored expires_at is not later than the issuance time, so the
\* token is returned by the issuing get_token call but is never reused: every
\* later get_token call that finds it under the key performs a new issuance.
C28_ShortLivedNeverReused ==
    \A tok \in IssuedTokens :
        [](ShortGrant(tok)
             => /\ ~last.raised
                /\ last.ret = tok
                /\ last.post.token = tok
                /\ last.post.expires_at <= last.t
                /\ [](Found(tok) => (last.issued = 1 /\ issueCalls = last.calls + 1)))

\* a token granted for exactly 300 seconds was found by the next call at the
\* same time, and that call asked the broker again
C28_Witness ==
    /\ last.op = "get_token"
    /\ last.pre.present
    /\ last.pre.expires_at = last.t
    /\ last.pre.token = JTok(last.self.app_key, last.calls)
    /\ last.issued = 1
    /\ last.ret = FreshToken

\* no slot of the configuration provider holds a complete account
NothingConfigured ==
    \A slot \in Slots : ~load_account_config(config, slot[1], slot[2]).some
\* what collect_all_assets returns when its configured accounts fail or hold
\* nothing: the empty list
EmptyReturn == [state |-> "returned", assets |-> <<>>, exc |-> ""]

\* C18: the outcome of collect_all_assets when no account at all is
\* configured differs from its outcome when accounts are configured but fail
\* or hold nothing (the empty list).
C18_NothingConfiguredIsDistinct ==
    (pc = "done" /\ NothingConfigured) => result # EmptyReturn

\* the fetches a run makes, in the order of the code: for each configured
\* KIS account (individual, then corporate) domestic then overseas, then the
\* Kiwoom corporate account
FetchesOf(prefix, broker) ==
    IF ~load_account_config(config, prefix, broker).some THEN <<>>
    ELSE IF broker = "kiwoom" THEN << <<<<prefix, broker>>, "kiwoom">> >>
    ELSE << <<<<prefix, broker>>, "kis_domestic">>, <<<<prefix, broker>>, "kis_overseas">> >>
ExpectedFetches == FetchesOf("P", "kis") \o FetchesOf("C", "kis") \o FetchesOf("C", "kiwoom")

\* C19: collect_all_assets returns exactly the concatenation, in the order
\* KIS individual domestic, KIS individual overseas, KIS corporate domestic,
\* KIS corporate overseas, Kiwoom corporate domestic, of the lists the
\* fetches of the configured accounts returned: unconfigured accounts
\* contribute nothing and no record is added, dropped, merged or
\* deduplicated.
C19_ConcatenationInOrder ==
    (pc = "done" /\ result.state = "returned")
        => /\ [i \in 1..Len(fetched) |-> <<fetched[i].account, fetched[i].kind>>]
                 = ExpectedFetches
           /\ result.assets =
                 Flatten([i \in 1..Len(fetched) |->
                             IF fetched[i].raised THEN <<>> ELSE fetched[i].recs])

C19_Witness ==
    /\ pc = "done"
    /\ result.state = "returned"
    /\ Len(fetched) = 5
    /\ \A i \in 1..5 : ~fetched[i].raised /\ Len(fetched[i].recs) = 2
    /\ Len(result.assets) = 10
    /\ result.assets[1].account_type = "individual"
    /\ result.assets[3].market = "overseas"
    /\ result.assets[9].broker = BROKER_KIWOOM

\* the Kiwoom fetch of the run raised
KiwoomRaised ==
    /\ pc = "done"
    /\ Len(fetched) > 0
    /\ fetched[Len(fetched)].kind = "kiwoom"
    /\ fetched[Len(fetched)].raised

\* C29: if the Kiwoom client raises any exception during token issuance, the
\* balance request or parsing, collect_all_assets raises nothing and returns
\* exactly the records already collected from the KIS accounts, unchanged and
\* in their original order.
C29_KiwoomExceptionCaught ==
    KiwoomRaised
        => /\ result.state = "returned"
           /\ result.assets =
                 Flatten([i \in 1..(Len(fetched) - 1) |-> fetched[i].recs])
           /\ result.assets = all_assets

\* both KIS accounts delivered their records and the Kiwoom payload could not
\* be parsed
C29_Witness ==
    /\ KiwoomRaised
    /\ Len(fetched) = 5
    /\ lastFetch.asked
    /\ lastFetch.exc = "OverflowError"
    /\ Len(result.assets) = 8
    /\ result.assets[1].account_type = "individual"
    /\ result.assets[8].broker = BROKER_KIS

\* the answer's expires_dt is a timestamp in the format YYYYMMDDHHMMSS
HasValidExpiresDt(res) ==
    /\ "expires_dt" \in DOMAIN res.body.d
    /\ res.body.d["expires_dt"].t = "str"
    /\ res.body.d["expires_dt"].s \in TimestampStrings

\* C17: after a successful Kiwoom token issuance at time now (a 2xx answer
\* carrying a token), the stored expires_at is the instant expires_dt names
\* minus 300 seconds if expires_dt parses as YYYYMMDDHHMMSS, and
\* now + 1800 - 300 if expires_dt is absent or is any value that is not such
\* a timestamp; in both cases the issuance succeeds.
C17_KiwoomExpiry ==
    ( /\ last.op = "get_token"
      /\ last.self.cls = "KiwoomAPI"
      /\ last.issued = 1
      /\ Is2xx(last.res)
      /\ CarriesToken(last.res) )
        => /\ ~last.raised
           /\ last.post.present
           /\ last.post.expires_at =
                 IF HasValidExpiresDt(last.res)
                 THEN StrptimeKST(last.res.body.d["expires_dt"].s) - TOKEN_BUFFER_SEC
                 ELSE last.t + KIWOOM_DEFAULT_TTL - TOKEN_BUFFER_SEC

(***************************************************************************)
(* The utility functions applied to their arguments                        *)
(***************************************************************************)
\* Strings whose characters matter are sequences of one-character strings.
Whitespace == {" "}
SEPARATOR == "-"
\* account[:8]
PREFIX_LEN == 8

\* str.strip(): whitespace removed at both ends
RECURSIVE LStrip(_)
LStrip(s) == IF Len(s) > 0 /\ Head(s) \in Whitespace THEN LStrip(Tail(s)) ELSE s
RECURSIVE RStrip(_)
RStrip(s) ==
    IF Len(s) > 0 /\ s[Len(s)] \in Whitespace THEN RStrip(SubSeq(s, 1, Len(s) - 1)) ELSE s
Strip(s) == LStrip(RStrip(s))

\* "-" in account
Contains(s, c) == \E i \in 1..Len(s) : s[i] = c
\* position of the first occurrence of c in s, which contains it
IndexOf(s, c) == CHOOSE i \in 1..Len(s) : s[i] = c /\ \A j \in 1..(i - 1) : s[j] # c
\* account.split("-", 1) on a string that contains the separator
SplitOnce(s, c) == << SubSeq(s, 1, IndexOf(s, c) - 1), SubSeq(s, IndexOf(s, c) + 1, Len(s)) >>
\* s[:n] and s[n:]
Take(s, n) == SubSeq(s, 1, IF n < Len(s) THEN n ELSE Len(s))
Drop(s, n) == SubSeq(s, (IF n < Len(s) THEN n ELSE Len(s)) + 1, Len(s))

\* split_account without the strip() of its first line
split_account_NoStrip(account) ==
    IF Contains(account, SEPARATOR) THEN SplitOnce(account, SEPARATOR)
    ELSE << Take(account, PREFIX_LEN), Drop(account, PREFIX_LEN) >>

\* split_account(account)
split_account(account) ==
    IF Contains(Strip(account), SEPARATOR) THEN SplitOnce(Strip(account), SEPARATOR)
    ELSE << Take(Strip(account), PREFIX_LEN), Drop(Strip(account), PREFIX_LEN) >>

\* what a caller may pass as val, and as default, to the safe conversions
SafeValues ==
    { JNull, JStr(""), JStr("abc"), JStr("0"), JStr("10"), JStr("-5"), JStr("0.5"),
      JStr("2.7"), JStr("inf"), JStr("-inf"), JStr("nan"), JNum(0), JNum(30), JNum(-25),
      JBool(TRUE), JBool(FALSE), JList(<<>>), JList(<<JNum(10)>>), EmptyDict,
      JDict("a" :> JNum(10)) }
FloatDefaults == { Fin(0), Fin(15) }
IntDefaults == { 0, 7 }

\* account numbers as the configuration may hold them: with and without
\* separator, with several separators, short, and padded with blanks
AccountCores ==
    { <<"1", "2", "3", "4", "5", "6", "7", "8", "0", "1">>,
      <<"1", "2", "3", "4", "5", "6", "7", "8", "-", "0", "1">>,
      <<"1", "2", "3", "4", "-", "5", "6", "-", "7", "8">>,
      <<"1", "2", "3", "4", "5", "6", "7", "8">>,
      <<"1", "2", "3", "4", "5", "6", "7", "8", "9", " ", "0", "1">>,
      <<"1", "2", "3", "4", "5", "6", "7", "8", "-">>,
      <<"-", "0", "1">>,
      <<"1", "2", "3">>,
      <<"1", "2", " ", "-", " ", "3">>,
      <<>> }
Blanks == { <<>>, <<" ">>, <<" ", " ">> }
AccountStrings == { l \o c \o r : l \in Blanks, c \in AccountCores, r \in Blanks }

(***************************************************************************)
(* The conversion to the home currency (dashboard_app.load_data)           *)
(***************************************************************************)
\* Amounts and rates are exact fractions n/d with d > 0; the rounding of
\* binary floating point is left out.
\* Fractions are kept in lowest terms.
RECURSIVE GCD(_, _)
GCD(a, b) == IF b = 0 THEN a ELSE GCD(b, a % b)
Abs(n) == IF n < 0 THEN -n ELSE n
R(n, d) == [n |-> n \div GCD(Abs(n), d), d |-> d \div GCD(Abs(n), d)]
RInt(n) == [n |-> n, d |-> 1]
RMul(a, b) ==
    R((a.n \div GCD(Abs(a.n), b.d)) * (b.n \div GCD(Abs(b.n), a.d)),
      (a.d \div GCD(Abs(b.n), a.d)) * (b.d \div GCD(Abs(a.n), b.d)))
RSub(a, b) ==
    R(a.n * (b.d \div GCD(a.d, b.d)) - b.n * (a.d \div GCD(a.d, b.d)),
      (a.d \div GCD(a.d, b.d)) * b.d)
REq(a, b) == a = b
RLess(a, b) == a.n * b.d < b.n * a.d
\* 1 / r for r # 0
RInv(r) == IF r.n > 0 THEN R(r.d, r.n) ELSE R(-r.d, -r.n)

HOME_CURRENCY == "KRW"
\* rates = {'KRW': 1, 'USD': 0.000724, 'HKD': 0.005545}
DEFAULT_RATES ==
    ("KRW" :> RInt(1)) @@ ("USD" :> R(724, 1000000)) @@ ("HKD" :> R(5545, 1000000))

\* What get_exchange_rates hands to load_data: None, or a table
NoRates == [some |-> FALSE, table |-> <<>>]
Rates(table) == [some |-> TRUE, table |-> table]
\* `not rates`: None and the empty table are falsy
RatesFalsy(rates) == ~rates.some \/ DOMAIN rates.table = {}

\* the table with the provider's rates taken as they are, not inverted
exchange_rates_to_krw_NotInverted(table) ==
    [ s \in DOMAIN table \cup {HOME_CURRENCY} |->
        IF s = HOME_CURRENCY THEN RInt(1) ELSE table[s] ]

\* exchange_rates_to_krw = {s: 1 / r if r != 0 else 0 for s, r in rates.items()}
\* followed by exchange_rates_to_krw['KRW'] = 1
exchange_rates_to_krw(table) ==
    [ s \in DOMAIN table \cup {HOME_CURRENCY} |->
        IF s = HOME_CURRENCY THEN RInt(1)
        ELSE IF table[s].n # 0 THEN RInv(table[s]) ELSE RInt(0) ]

\* exchange_rates_to_krw.get(r['currency'], 1)
RateOf(to_krw, currency) == IF currency \in DOMAIN to_krw THEN to_krw[currency] ELSE RInt(1)

\* the three columns with the principal always back-computed
ConvertRow_AlwaysBackComputed(r, to_krw) ==
    LET rate == RateOf(to_krw, r.currency)
        eval_amount_krw == RMul(r.eval_amount, rate)
        profit_loss_krw == RMul(r.profit_loss, rate)
    IN  [ row |-> r,
          eval_amount_krw |-> eval_amount_krw,
          profit_loss_krw |-> profit_loss_krw,
          principal_krw |-> RSub(eval_amount_krw, profit_loss_krw) ]

\* the three columns load_data adds to one row of the frame
ConvertRow(r, to_krw) ==
    LET rate == RateOf(to_krw, r.currency)
        eval_amount_krw == RMul(r.eval_amount, rate)
        profit_loss_krw == RMul(r.profit_loss, rate)
    IN  [ row |-> r,
          eval_amount_krw |-> eval_amount_krw,
          profit_loss_krw |-> profit_loss_krw,
          principal_krw |->
              IF r.asset_type = "cash" THEN eval_amount_krw
              ELSE IF r.asset_type = "stock" /\ r.avg_buy_price.n > 0
                   THEN RMul(RMul(r.avg_buy_price, RInt(r.quantity)), rate)
                   ELSE RSub(eval_amount_krw, profit_loss_krw) ]

\* load_data, given what collect_all_assets and get_exchange_rates returned:
\* the frame, the rate table it returns, and whether st.error / st.warning
\* were shown
load_data(assets_list, rates) ==
    IF Len(assets_list) = 0
    THEN [ df |-> <<>>, exchange_rates_to_krw |-> <<>>, error |-> TRUE, warning |-> FALSE ]
    ELSE LET table == IF RatesFalsy(rates) THEN DEFAULT_RATES ELSE rates.table
             to_krw == exchange_rates_to_krw(table)
         IN  [ df |-> [ i \in 1..Len(assets_list) |-> ConvertRow(assets_list[i], to_krw) ],
               exchange_rates_to_krw |-> to_krw,
               error |-> FALSE,
               warning |-> RatesFalsy(rates) ]

\* Bound of the model: rows in the list given to load_data
MaxRows == 2

\* the rows: for each currency a stock with a cost basis, a stock without
\* one, and a cash record
Currencies == { "KRW", "USD", "HKD", "JPY" }
RowsOf(currency) ==
    { [ asset_type |-> "stock", currency |-> currency, quantity |-> 3,
        avg_buy_price |-> RInt(10), eval_amount |-> RInt(100), profit_loss |-> RInt(20) ],
      [ asset_type |-> "stock", currency |-> currency, quantity |-> 3,
        avg_buy_price |-> RInt(0), eval_amount |-> RInt(100), profit_loss |-> RInt(-5) ],
      [ asset_type |-> "cash", currency |-> currency, quantity |-> 1,
        avg_buy_price |-> RInt(100), eval_amount |-> RInt(100), profit_loss |-> RInt(0) ] }
Rows == UNION { RowsOf(c) : c \in Currencies }

\* what the rate provider may answer
RateAnswers ==
    { NoRates,
      Rates(<<>>),
      Rates(("KRW" :> RInt(1)) @@ ("USD" :> R(7, 10000))),
      Rates(("KRW" :> RInt(1)) @@ ("USD" :> R(7, 10000)) @@ ("HKD" :> RInt(0))),
      Rates(("KRW" :> RInt(1)) @@ ("USD" :> R(7, 10000)) @@ ("HKD" :> R(55, 10000))
            @@ ("JPY" :> R(1, 10))) }

(***************************************************************************)
(* The functions applied to their arguments                                *)
(***************************************************************************)
\* what an issuance response may carry in one of its token fields: nothing,
\* null, the empty string, or a token
FieldVariants(field, tok) ==
    { [k \in {} |-> JNull], field :> JNull, field :> JStr(""), field :> JStr(tok) }
ExtractBodies ==
    { JDict(a @@ k) : a \in FieldVariants("access_token", "tokA"),
                      k \in FieldVariants("token", "tokT") }

FnNames == { "safe_float", "safe_int", "split_account", "load_data", "extract_token" }
FnInputs(name) ==
    CASE name = "safe_float"    -> [ val : SafeValues, default : FloatDefaults ]
      [] name = "safe_int"      -> [ val : SafeValues, default : IntDefaults ]
      [] name = "split_account" -> [ account : AccountStrings ]
      [] name = "load_data"     -> [ assets_list : SeqsUpTo(Rows, MaxRows), rates : RateAnswers ]
      [] name = "extract_token" -> [ cls : {"KISApi", "KiwoomAPI"}, data : ExtractBodies ]

FnInit ==
    /\ f_name \in FnNames
    /\ f_in \in FnInputs(f_name)
    /\ f_out = Pending
    /\ RaceIdle
    /\ TokenIdle
    /\ CollectIdle
    /\ ParseIdle

Called(name) == f_name = name /\ f_out.exc = "pending"
Answered(name) == f_name = name /\ f_out.exc # "pending"

\* safe_float(val, default)
CallSafeFloat ==
    /\ Called("safe_float")
    /\ f_out' = safe_float_d(f_in.val, f_in.default)
    /\ UNCHANGED <<f_name, f_in, tokenVars, collectVars, parseVars, callers, workers>>

\* safe_int(val, default)
CallSafeInt ==
    /\ Called("safe_int")
    /\ f_out' = safe_int_d(f_in.val, f_in.default)
    /\ UNCHANGED <<f_name, f_in, tokenVars, collectVars, parseVars, callers, workers>>

\* split_account(account)
CallSplitAccount ==
    /\ Called("split_account")
    /\ f_out' = Ok(split_account(f_in.account))
    /\ UNCHANGED <<f_name, f_in, tokenVars, collectVars, parseVars, callers, workers>>

\* load_data()
CallLoadData ==
    /\ Called("load_data")
    /\ f_out' = Ok(load_data(f_in.assets_list, f_in.rates))
    /\ UNCHANGED <<f_name, f_in, tokenVars, collectVars, parseVars, callers, workers>>

\* self._extract_token(data) on a client of class cls
CallExtractToken ==
    /\ Called("extract_token")
    /\ f_out' = Ok(ExtractToken([cls |-> f_in.cls], f_in.data))
    /\ UNCHANGED <<f_name, f_in, tokenVars, collectVars, parseVars, callers, workers>>

FnNext == CallSafeFloat \/ CallSafeInt \/ CallSplitAccount \/ CallLoadData \/ CallExtractToken

SpecFn == FnInit /\ [][FnNext]_vars

\* C11: for every input value, safe_float and safe_int return a number and
\* never raise, and for missing, null and non-numeric input they return
\* exactly the given default.
NonNumeric ==
    { JNull, JStr(""), JStr("abc"), JList(<<>>), JList(<<JNum(10)>>), EmptyDict,
      JDict("a" :> JNum(10)) }
C11_SafeConversionsNeverRaise ==
    (Answered("safe_float") \/ Answered("safe_int"))
        => /\ f_out.ok
           /\ f_in.val \in NonNumeric => f_out.v = f_in.default

\* C26: for both clients, token extraction yields a token whenever the
\* issuance response has a non-empty access_token field or a non-empty token
\* field (KIS prefers access_token, Kiwoom prefers token when both are
\* present), and yields none only when both are absent or empty.
C26_TokenExtraction ==
    Answered("extract_token")
        => LET access == Get(f_in.data, "access_token")
               token  == Get(f_in.data, "token")
               first  == IF f_in.cls = "KiwoomAPI" THEN token ELSE access
               second == IF f_in.cls = "KiwoomAPI" THEN access ELSE token
           IN  /\ Truthy(first) => f_out.v = first
               /\ (~Truthy(first) /\ Truthy(second)) => f_out.v = second
               /\ Truthy(f_out.v) <=> (Truthy(access) \/ Truthy(token))

\* both fields carry a token: the KIS client took access_token
C26_Witness ==
    /\ Answered("extract_token")
    /\ f_in.cls = "KISApi"
    /\ Get(f_in.data, "access_token") = JStr("tokA")
    /\ Get(f_in.data, "token") = JStr("tokT")
    /\ f_out.v = JStr("tokA")

\* the account string with the blanks at both ends removed
Trimmed == Strip(f_in.account)

\* C16 as stated, positions counted on the string as given: with a
\* separator, prefix is the text before the first separator and suffix all
\* that follows it; without one, prefix is the first 8 characters of the
\* trimmed input, and prefix followed by suffix is the trimmed input.
C16_SplitOnGivenString ==
    Answered("split_account")
        => IF Contains(f_in.account, SEPARATOR)
           THEN /\ ~Contains(f_out.v[1], SEPARATOR)
                /\ f_out.v[1] \o <<SEPARATOR>> \o f_out.v[2] = f_in.account
           ELSE /\ f_out.v[1] = Take(Trimmed, PREFIX_LEN)
                /\ f_out.v[1] \o f_out.v[2] = Trimmed

\* C16 (amended): split_account first removes the blanks at both ends of the
\* account string; then, if the trimmed string contains the separator "-",
\* prefix is its text before the first separator and suffix everything after
\* it, otherwise prefix is its first 8 characters (all of it when shorter) and
\* suffix the remainder, so that prefix followed by suffix is the trimmed
\* string.
C16_SplitAccount ==
    Answered("split_account")
        => /\ Len(f_out.v) = 2
           /\ IF Contains(Trimmed, SEPARATOR)
              THEN /\ ~Contains(f_out.v[1], SEPARATOR)
                   /\ f_out.v[1] \o <<SEPARATOR>> \o f_out.v[2] = Trimmed
              ELSE /\ Len(f_out.v[1]) = (IF Len(Trimmed) < PREFIX_LEN
                                         THEN Len(Trimmed) ELSE PREFIX_LEN)
                   /\ f_out.v[1] \o f_out.v[2] = Trimmed

C16_Witness ==
    /\ Answered("split_account")
    /\ f_in.account = <<" ", "1", "2", "3", "4", "5", "6", "7", "8", "0", "1", " ">>
    /\ f_out.v = << <<"1", "2", "3", "4", "5", "6", "7", "8">>, <<"0", "1">> >>

\* the provider's rate table in effect: the fallback table when the provider
\* gave none
RatesInEffect == IF RatesFalsy(f_in.rates) THEN DEFAULT_RATES ELSE f_in.rates.table

\* C20: for every record and rate table the conversion sets
\* eval_amount_home = eval_amount * r and profit_loss_home = profit_loss * r,
\* where r is the home-currency (KRW) value of one unit of the record's
\* currency: exactly 1 for KRW and the reciprocal of the provider's KRW-based
\* rate otherwise (so the converted amount times the provider's rate gives
\* the amount back); currency USD with provider rate 0.0007 and eval_amount
\* 100 gives an eval_amount_home of about 142857.14.
C20_ConversionByReciprocalRate ==
    (Answered("load_data") /\ ~f_out.v.error)
        => \A i \in 1..Len(f_out.v.df) :
              LET row == f_in.assets_list[i]
                  out == f_out.v.df[i]
              IN  /\ row.currency = HOME_CURRENCY
                        => /\ out.eval_amount_krw = row.eval_amount
                           /\ out.profit_loss_krw = row.profit_loss
                  /\ ( /\ row.currency # HOME_CURRENCY
                       /\ row.currency \in DOMAIN RatesInEffect
                       /\ RatesInEffect[row.currency].n # 0 )
                        => /\ REq(RMul(out.eval_amount_krw, RatesInEffect[row.currency]),
                                  row.eval_amount)
                           /\ REq(RMul(out.profit_loss_krw, RatesInEffect[row.currency]),
                                  row.profit_loss)
                  /\ ( /\ row.currency = "USD"
                       /\ row.currency \in DOMAIN RatesInEffect
                       /\ RatesInEffect["USD"] = R(7, 10000)
                       /\ row.eval_amount = RInt(100) )
                        => /\ RLess(R(14285714, 100), out.eval_amount_krw)
                           /\ RLess(out.eval_amount_krw, R(14285715, 100))

C20_Witness ==
    /\ Answered("load_data")
    /\ Len(f_in.assets_list) = 2
    /\ f_in.assets_list[1].currency = "USD"
    /\ f_in.assets_list[2].currency = "KRW"
    /\ ~RatesFalsy(f_in.rates)
    /\ f_in.rates.table["USD"] = R(7, 10000)
    /\ f_out.v.df[1].eval_amount_krw = R(1000000, 7)
    /\ f_out.v.df[1].profit_loss_krw = R(200000, 7)
    /\ f_out.v.df[2].eval_amount_krw = RInt(100)

\* the rate load_data applied to the i-th row, read from the table it returns
AppliedRate(i) == RateOf(f_out.v.exchange_rates_to_krw, f_in.assets_list[i].currency)

\* C21: for every record, principal_home is avg_buy_price * quantity *
\* rate[currency] when the record is a stock with avg_buy_price > 0, and
\* eval_amount_home - profit_loss_home otherwise (a stock with avg_buy_price
\* 0, or cash); for cash records this equals eval_amount_home.
C21_PrincipalHome ==
    (Answered("load_data") /\ ~f_out.v.error)
        => \A i \in 1..Len(f_out.v.df) :
              LET row == f_in.assets_list[i]
                  out == f_out.v.df[i]
              IN  /\ IF row.asset_type = "stock" /\ row.avg_buy_price.n > 0
                     THEN out.principal_krw
                            = RMul(RMul(row.avg_buy_price, RInt(row.quantity)), AppliedRate(i))
                     ELSE out.principal_krw
                            = RSub(out.eval_amount_krw, out.profit_loss_krw)
                  /\ row.asset_type = "cash" => out.principal_krw = out.eval_amount_krw

C21_Witness ==
    /\ Answered("load_data")
    /\ Len(f_in.assets_list) = 2
    /\ f_in.assets_list[1].asset_type = "stock"
    /\ f_in.assets_list[1].avg_buy_price = RInt(10)
    /\ f_in.assets_list[1].currency = "KRW"
    /\ f_out.v.df[1].principal_krw = RInt(30)
    /\ f_in.assets_list[2].asset_type = "stock"
    /\ f_in.assets_list[2].avg_buy_price = RInt(0)
    /\ f_in.assets_list[2].currency = "USD"
    /\ ~RatesFalsy(f_in.rates)
    /\ f_out.v.df[2].principal_krw = RInt(150000)

\* some row's currency has no entry in the rate table load_data used
SomeRateMissing ==
    \E i \in 1..Len(f_in.assets_list) :
        f_in.assets_list[i].currency \notin DOMAIN f_out.v.exchange_rates_to_krw

\* C22: when a record's currency has no entry in the rate table, the
\* conversion uses a rate of 1 for that record and surfaces a warning to the
\* caller, so that a conversion in which some currency fell back to rate 1
\* differs from one in which every rate was found.
C22_MissingRateWarns ==
    (Answered("load_data") /\ ~f_out.v.error /\ SomeRateMissing)
        => /\ \A i \in 1..Len(f_out.v.df) :
                 f_in.assets_list[i].currency \notin DOMAIN f_out.v.exchange_rates_to_krw
                     => f_out.v.df[i].eval_amount_krw = f_in.assets_list[i].eval_amount
           /\ f_out.v.warning

(***************************************************************************)
(* Two callers inside get_token on one cache key.  get_token reads the     *)
(* session store, and on a miss _issue_token sends the POST and then       *)
(* _save_token writes the store: three steps with nothing held between     *)
(* them, so the steps of two callers interleave.                           *)
(***************************************************************************)
Callers == {"a", "b"}

\* a caller that has not read the store yet
Entering ==
    [ pc |-> "check", pre |-> Entry(<<>>, <<>>), missed |-> FALSE, issued |-> 0,
      res |-> NoAnswer, raised |-> FALSE, exc |-> "", ret |-> JNull ]

\* the clients the callers may share
RaceClients ==
    { NewKISApi(CredP.app_key, CredP.app_secret, CredP.account_no, "P"),
      NewKiwoomAPI(CredK.app_key, CredK.app_secret, CredK.account_no) }

\* what the store may hold when the callers arrive: nothing, an entry that
\* has expired, or one that is still good
RaceStores(self) ==
    { <<>> } \cup
    { Store(<<>>, self.token_key,
            [token |-> JTok(self.app_key, 0), expires_at |-> e]) : e \in {0, 900} }

RaceInit ==
    /\ now = 0
    /\ api \in RaceClients
    /\ session_state \in RaceStores(api)
    /\ issueCalls = 0
    /\ last = NoCall
    /\ callers = [c \in Callers |-> Entering]
    /\ workers = <<>>
    /\ CollectIdle
    /\ ParseIdle
    /\ FnIdle

\* get_token with a lock around check-then-issue: a caller that had missed
\* looks again before it asks the broker
IssuesAfterMiss_Rechecked(ss, key, t) == ~Reusable(ss, key, t)

\* get_token, `return self._issue_token()`: after a miss the caller asks the
\* broker, whatever the store holds by then
IssuesAfterMiss(ss, key, t) == TRUE

\* token_info = st.session_state.get(self.token_key, {}) and the expiry test
RaceCheck(c) ==
    /\ callers # <<>>
    /\ callers[c].pc = "check"
    /\ callers' = [callers EXCEPT ![c] =
          IF Reusable(session_state, api.token_key, now)
          THEN [@ EXCEPT !.pc = "done", !.pre = Entry(session_state, api.token_key),
                         !.ret = session_state[api.token_key].token]
          ELSE [@ EXCEPT !.pc = "issue", !.pre = Entry(session_state, api.token_key),
                         !.missed = TRUE]]
    /\ UNCHANGED <<tokenVars, collectVars, parseVars, fnVars, workers>>

\* requests.post(...) of _issue_token: the broker answers res
RaceRequest(c) ==
    /\ callers # <<>>
    /\ callers[c].pc = "issue"
    /\ IF IssuesAfterMiss(session_state, api.token_key, now)
       THEN \E res \in TokenResponses(api, issueCalls + 1) :
               /\ callers' = [callers EXCEPT ![c] =
                                 [@ EXCEPT !.pc = "store", !.res = res, !.issued = 1]]
               /\ issueCalls' = issueCalls + 1
       ELSE /\ callers' = [callers EXCEPT ![c] =
                              [@ EXCEPT !.pc = "done",
                                        !.ret = session_state[api.token_key].token]]
            /\ issueCalls' = issueCalls
    /\ UNCHANGED <<now, session_state, api, last, collectVars, parseVars, fnVars, workers>>

\* the rest of _issue_token: the answer is read and _save_token writes
RaceStore(c) ==
    /\ callers # <<>>
    /\ callers[c].pc = "store"
    /\ LET out == issue_token(api, session_state, now, callers[c].res)
       IN  /\ session_state' = out.ss
           /\ api' = out.self
           /\ callers' = [callers EXCEPT ![c] =
                             [@ EXCEPT !.pc = "done", !.raised = out.raised,
                                       !.exc = out.exc, !.ret = out.ret]]
    /\ UNCHANGED <<now, issueCalls, last, collectVars, parseVars, fnVars, workers>>

RaceNext ==
    \/ \E c \in Callers : RaceCheck(c)
    \/ \E c \in Callers : RaceRequest(c)
    \/ \E c \in Callers : RaceStore(c)

SpecRace == RaceInit /\ [][RaceNext]_vars

\* C24: token acquisition is not safe under concurrency.  Every caller that
\* finds the entry absent or expired sends its own issuance request, whatever
\* another caller has stored in between; so when two callers both pass the
\* expiry check before either stores, two issuance calls are made for one
\* refresh.
C24_DuplicateIssuance ==
    callers # <<>>
        => /\ \A c \in Callers :
                 (callers[c].missed /\ callers[c].pc \in {"store", "done"})
                     => callers[c].issued = 1
           /\ (\A c \in Callers : callers[c].missed /\ callers[c].pc = "done")
                 => issueCalls = 2

\* both callers read the same absent entry, both asked the broker and got a
\* grant, and the store holds the later grant, which a caller coming after
\* the first grant was stored would have reused
C24_Witness ==
    /\ callers # <<>>
    /\ \A c \in Callers :
          /\ callers[c].pc = "done"
          /\ callers[c].missed
          /\ ~callers[c].pre.present
          /\ ~callers[c].raised
          /\ callers[c].ret.t = "str"
    /\ callers["a"].ret # callers["b"].ret
    /\ issueCalls = 2
    /\ Reusable(session_state, api.token_key, now)

(***************************************************************************)
(* The per-account bodies of collect_all_assets run side by side: the two  *)
(* turns of the KIS loop and the Kiwoom part, each fetch one step, the     *)
(* steps of different bodies in any order.  The brokers' answers are fixed *)
(* when the run starts, so that the same answers can be given to the       *)
(* sequential run.                                                         *)
(***************************************************************************)
Bodies == {"P", "C", "K"}

\* every account is configured
ParConfig ==
    [slot \in Slots |->
        CASE slot = <<"P", "kis">> -> CredP
          [] slot = <<"C", "kis">> -> CredC
          [] slot = <<"C", "kiwoom">> -> CredK]

\* the client a body builds
ParClient(b) ==
    IF b = "K"
    THEN KiwoomClient(load_account_config(ParConfig, "C", "kiwoom"))
    ELSE LET cfg == load_account_config(ParConfig, b, "kis")
         IN  NewKISApi(cfg.app_key, cfg.app_secret, cfg.account_no, b)

\* the answers of a run: the token endpoint grants or times out, a balance
\* endpoint times out or sends a payload with one holding
ParTokenAnswers(b) ==
    { r \in CollectTokenResponses(ParClient(b), 1) : r.kind = "timeout" \/ r.status = 200 }
ParBalanceAnswers(kind) ==
    { r \in BalanceResponses(kind) :
        \/ r.kind = "timeout"
        \/ /\ r.status = 200
           /\ r.json
           /\ Get(r.body, "rt_cd") = JStr("0") \/ Get(r.body, "return_code") = JNum(0)
           /\ Len(Get(r.body, HoldingsField(kind)).l) = 1 }

\* a body before its first fetch, with the answers it will get
ParWorkers ==
    { [b \in Bodies |->
          [ pc |-> "dom",
            tokRes |-> CASE b = "P" -> tp [] b = "C" -> tc [] b = "K" -> tk,
            dom |-> CASE b = "P" -> dp [] b = "C" -> dc [] b = "K" -> dk,
            ovs |-> CASE b = "P" -> op [] b = "C" -> oc [] b = "K" -> NoAnswer ]] :
        tp \in ParTokenAnswers("P"), tc \in ParTokenAnswers("C"), tk \in ParTokenAnswers("K"),
        dp \in ParBalanceAnswers("kis_domestic"), dc \in ParBalanceAnswers("kis_domestic"),
        dk \in ParBalanceAnswers("kiwoom"),
        op \in ParBalanceAnswers("kis_overseas"), oc \in ParBalanceAnswers("kis_overseas") }

ParInit ==
    /\ TokenIdle
    /\ ParseIdle
    /\ FnIdle
    /\ callers = <<>>
    /\ workers \in ParWorkers
    /\ config = ParConfig
    /\ pc = "running"
    /\ all_assets = <<>>
    /\ result = NoResult
    /\ fetched = <<>>
    /\ runs = 1
    /\ lastFetch = NoFetch

\* the fetch a body makes at its position, on the session store it finds
ParFetchOf(w, b, kind, ss, t) ==
    IF b = "K"
    THEN Kiwoom_get_domestic_balance(ParClient(b), ss, t, w[b].tokRes, w[b].dom)
    ELSE KIS_get_balance(kind, ParClient(b), ss, t, w[b].tokRes,
                         IF kind = "kis_domestic" THEN w[b].dom ELSE w[b].ovs)

\* What the KIS loop does with the outcome of a fetch when the bodies run
\* side by side: an exception leaves collect_all_assets, a list is appended
ParKISDone(b, kind, out) ==
    /\ session_state' = out.ss
    /\ api' = out.self
    /\ issueCalls' = issueCalls + out.issued
    /\ IF out.raised
       THEN /\ pc' = "done"
            /\ result' = [state |-> "raised", assets |-> <<>>, exc |-> out.exc]
            /\ workers' = [workers EXCEPT ![b].pc = "raised"]
            /\ UNCHANGED all_assets
       ELSE /\ all_assets' = extend(all_assets, out.ret)
            /\ workers' = [workers EXCEPT
                              ![b].pc = IF kind = "kis_domestic" THEN "ovs" ELSE "done"]
            /\ UNCHANGED <<pc, result>>

\* a fetch of a KIS body
ParKISFetch(b, kind) ==
    /\ workers # <<>>
    /\ pc = "running"
    /\ workers[b].pc = (IF kind = "kis_domestic" THEN "dom" ELSE "ovs")
    /\ ParKISDone(b, kind, ParFetchOf(workers, b, kind, session_state, now))
    /\ UNCHANGED <<now, last, config, fetched, runs, lastFetch, parseVars, fnVars, callers>>

\* What the Kiwoom part does with the outcome of its fetch: the exception,
\* if any, is caught
ParKiwoomDone(out) ==
    /\ session_state' = out.ss
    /\ api' = out.self
    /\ issueCalls' = issueCalls + out.issued
    /\ all_assets' = (IF out.raised THEN all_assets ELSE extend(all_assets, out.ret))
    /\ workers' = [workers EXCEPT !["K"].pc = "done"]

\* the fetch of the Kiwoom body
ParKiwoomFetch ==
    /\ workers # <<>>
    /\ pc = "running"
    /\ workers["K"].pc = "dom"
    /\ ParKiwoomDone(ParFetchOf(workers, "K", "kiwoom", session_state, now))
    /\ UNCHANGED <<now, last, config, pc, result, fetched, runs, lastFetch,
                   parseVars, fnVars, callers>>

\* return all_assets, once every body is through
ParReturn ==
    /\ workers # <<>>
    /\ pc = "running"
    /\ \A b \in Bodies : workers[b].pc = "done"
    /\ pc' = "done"
    /\ result' = [state |-> "returned", assets |-> all_assets, exc |-> ""]
    /\ UNCHANGED <<tokenVars, config, all_assets, fetched, runs, lastFetch,
                   parseVars, fnVars, callers, workers>>

ParNext ==
    \/ \E b \in {"P", "C"}, kind \in {"kis_domestic", "kis_overseas"} : ParKISFetch(b, kind)
    \/ ParKiwoomFetch
    \/ ParReturn

SpecPar == ParInit /\ [][ParNext]_vars

\* collect_all_assets as the code runs it, one body after the other, on the
\* answers w at time t: the outcome, the records and the session store
SeqStart == [state |-> "running", assets |-> <<>>, ss |-> <<>>, exc |-> ""]
SeqAfter(acc, out, caught) ==
    IF out.raised
    THEN IF caught THEN [acc EXCEPT !.ss = out.ss]
         ELSE [state |-> "raised", assets |-> <<>>, ss |-> out.ss, exc |-> out.exc]
    ELSE [acc EXCEPT !.ss = out.ss, !.assets = extend(acc.assets, out.ret)]
SeqFetch(acc, w, b, kind, t) ==
    IF acc.state = "raised" THEN acc
    ELSE CHOOSE r \in { SeqAfter(acc, out, b = "K") :
                          out \in { ParFetchOf(w, b, kind, acc.ss, t) } } : TRUE
\* the five fetches in the order of the code, each on what the one before left
SequentialRun(w, t) ==
    CHOOSE r \in
        { IF k.state = "raised" THEN k ELSE [k EXCEPT !.state = "returned"] :
            k \in { SeqFetch(c2, w, "K", "kiwoom", t) :
              c2 \in { SeqFetch(c1, w, "C", "kis_overseas", t) :
                c1 \in { SeqFetch(p2, w, "C", "kis_domestic", t) :
                  p2 \in { SeqFetch(p1, w, "P", "kis_overseas", t) :
                    p1 \in { SeqFetch(SeqStart, w, "P", "kis_domestic", t) } } } } } } : TRUE

\* the two lists hold the same records the same number of times
SameMultiset(s, t) ==
    /\ Len(s) = Len(t)
    /\ \A i \in 1..Len(s) :
          Cardinality({ j \in 1..Len(s) : s[j] = s[i] })
              = Cardinality({ j \in 1..Len(t) : t[j] = s[i] })

\* the three clients use pairwise distinct cache keys
DistinctKeys ==
    \A b1, b2 \in Bodies : b1 # b2 => ParClient(b1).token_key # ParClient(b2).token_key

\* the run is over and no KIS fetch raised
ParReturned == workers # <<>> /\ pc = "done" /\ result.state = "returned"

\* in the runs that return, the interleaving does not matter
InterleavingIndependenceWhenReturned ==
    ParReturned
        => /\ SequentialRun(workers, now).state = "returned"
           /\ SameMultiset(result.assets, SequentialRun(workers, now).assets)
           /\ session_state = SequentialRun(workers, now).ss

\* C25: the per-account bodies of collect_all_assets share no mutable state
\* other than the result list, and the three clients use pairwise distinct
\* token cache keys; so running the bodies in any interleaving yields the
\* same multiset of records and the same final token cache contents as the
\* sequential run.
C25_InterleavingIndependence ==
    /\ DistinctKeys
    /\ (workers # <<>> /\ pc = "done")
          => /\ result.state = SequentialRun(workers, now).state
             /\ SameMultiset(result.assets, SequentialRun(workers, now).assets)
             /\ session_state = SequentialRun(workers, now).ss

=============================================================================
